---- MODULE Spec2Model ----
(***************************************************************************)
(* Mystery-box generator: the product cache (catalog), the mystery box     *)
(* templates, the generated box instances, the bundle selection algorithm  *)
(* and the catalog sync pipeline.                                          *)
(*                                                                         *)
(* Money is counted in cents, so the literal 0.01 of the source is 1.      *)
(* Strings that the code splits, trims, lower-cases or searches are         *)
(* sequences of one-character strings.  A column that holds JSON text is    *)
(* a record [json |-> "array", v |-> ...], [json |-> "null"], ... on which  *)
(* JSON.parse either yields the value or throws.                            *)
(***************************************************************************)
EXTENDS Integers, Sequences, FiniteSets, TLC

VARIABLES
  shops,          \* prisma.shop: the ids of the shop rows (one per shopDomain)
  productCache,   \* prisma.productCache: sequence of rows in primary-key order
  nextProductId,  \* the autoincrement counter of productCache.id
  mysteryBoxes,   \* prisma.mysteryBox: sequence of template rows
  boxInstances,   \* prisma.boxInstance: sequence of generated instances
  gen,            \* per caller: the generate request in flight
  upstream,       \* the pages of the Shopify catalog of the shop being synced
  sync,           \* the sync run in flight and its report
  upserts,        \* the unique index of productCache, and per writer the
                  \* cacheProduct call in flight between its find and its write
  oauth           \* ShopifyService.stateStore, the clock, and what the OAuth
                  \* routes have done so far

vars == <<shops, productCache, nextProductId, mysteryBoxes, boxInstances, gen, upstream, sync,
          upserts, oauth>>

----------------------------------------------------------------------------
(* Bounds of the model *)

MaxRows == 2
MaxFilterRows == 2
MaxBoxes == 1
MaxValue == 3
MaxPrice == 2
MaxItemsArg == 2
RandSteps == 2
MaxPages == 2
MaxPageSize == 2
MaxSyncIds == 3
MaxVariants == 2
MaxWriteIds == 2
MaxRowId == 2
MaxExtraPages == 1
MaxInstances == 2
MaxSelectRows == 3
MaxSelectPrice == 3
MaxSelectValue == 4
MaxTargetValue == 10
MaxTokens == 1
MaxIssues == 2
MaxClock == 2

----------------------------------------------------------------------------
(* Generic helpers *)

Min(a, b) == IF a < b THEN a ELSE b

Max(a, b) == IF a > b THEN a ELSE b

Range(s) == {s[i] : i \in 1..Len(s)}

RECURSIVE SumSeq(_)
SumSeq(s) == IF s = <<>> THEN 0 ELSE Head(s) + SumSeq(Tail(s))

RECURSIVE SumOver(_, _)
\* the sum of field[i] over the rows i of rows
SumOver(rows, field) ==
  IF rows = {} THEN 0
  ELSE LET i == CHOOSE x \in rows : TRUE
       IN field[i] + SumOver(rows \ {i}, field)

RECURSIVE InsertAsc(_, _)
\* inserts row x after every row whose price is not greater: with this
\* insertion the sort keeps the order of equal prices, as Array.prototype.sort does
InsertAsc(s, x) ==
  IF s = <<>> THEN <<x>>
  ELSE IF x.price < Head(s).price THEN <<x>> \o s
       ELSE <<Head(s)>> \o InsertAsc(Tail(s), x)

RECURSIVE SortAsc(_)
\* [...products].sort((a, b) => a.price - b.price)
SortAsc(s) ==
  IF s = <<>> THEN <<>>
  ELSE InsertAsc(SortAsc(SubSeq(s, 1, Len(s) - 1)), s[Len(s)])

RECURSIVE InsertDesc(_, _)
InsertDesc(s, x) ==
  IF s = <<>> THEN <<x>>
  ELSE IF x.price > Head(s).price THEN <<x>> \o s
       ELSE <<Head(s)>> \o InsertDesc(Tail(s), x)

RECURSIVE SortDesc(_)
\* [...products].sort((a, b) => b.price - a.price)
SortDesc(s) ==
  IF s = <<>> THEN <<>>
  ELSE InsertDesc(SortDesc(SubSeq(s, 1, Len(s) - 1)), s[Len(s)])

----------------------------------------------------------------------------
(* Strings: String.prototype.split(','), trim, toLowerCase, includes *)

LowerChar(ch) ==
  CASE ch = "S" -> "s"
    [] ch = "A" -> "a"
    [] ch = "N" -> "n"
    [] OTHER -> ch

ToLowerCase(str) == [i \in 1..Len(str) |-> LowerChar(str[i])]

RECURSIVE TrimLeft(_)
TrimLeft(str) ==
  IF str # <<>> /\ Head(str) = " " THEN TrimLeft(Tail(str)) ELSE str

RECURSIVE TrimRight(_)
TrimRight(str) ==
  IF str # <<>> /\ str[Len(str)] = " " THEN TrimRight(SubSeq(str, 1, Len(str) - 1)) ELSE str

Trim(str) == TrimRight(TrimLeft(str))

RECURSIVE SplitComma(_, _)
\* str.split(','): cur is the piece being read
SplitComma(str, cur) ==
  IF str = <<>> THEN <<cur>>
  ELSE IF Head(str) = "," THEN <<cur>> \o SplitComma(Tail(str), <<>>)
       ELSE SplitComma(Tail(str), Append(cur, Head(str)))

Split(str) == SplitComma(str, <<>>)

Includes(hay, needle) ==
  \E i \in 0..(Len(hay) - Len(needle)) : SubSeq(hay, i + 1, i + Len(needle)) = needle

----------------------------------------------------------------------------
(* JSON text columns *)

JsonArray(v) == [json |-> "array", v |-> v]

JsonNull == [json |-> "null", v |-> <<>>]

JsonUndefined == [json |-> "undefined", v |-> <<>>]

\* a numeric request field that is absent (never a value of the field)
Undefined == -999

\* JSON.stringify(x || []) of the create route: an absent or null field is
\* stored as the empty array
StringifyOrEmpty(x) == IF x.json = "array" THEN x ELSE JsonArray(<<>>)

\* JSON.stringify(x) of the update route (x is not undefined there): null
\* is stored as the text null
Stringify(x) == x

----------------------------------------------------------------------------
(* The product cache and ShopifyService.cacheProduct *)

Tenants == {1, 2}

\* product.tags ? product.tags.split(',').map(t => t.trim()) : []
ParseTags(tags) ==
  IF tags = <<>> THEN <<>>
  ELSE LET parts == Split(tags) IN [i \in 1..Len(parts) |-> Trim(parts[i])]

\* product.variants.reduce((sum, v) => sum + (v.inventory_quantity || 0), 0)
\* the shopifyVariantId column of a row written without one (null)
NoVariantId == <<>>

TotalInventory(variants) ==
  SumSeq([i \in 1..Len(variants) |-> variants[i].inventory_quantity])

\* the productData object of cacheProduct; price and compareAtPrice are
\* parseFloat(x || 0) of the first variant, 0 when there is none
ProductData(shopId, product) ==
  [ shopId |-> shopId,
    shopifyProductId |-> product.id,
    productType |-> product.product_type,
    tags |-> JsonArray(ParseTags(product.tags)),
    status |-> product.status,
    price |-> IF product.variants = <<>> THEN 0 ELSE product.variants[1].price,
    compareAtPrice |-> IF product.variants = <<>> THEN 0
                       ELSE product.variants[1].compare_at_price,
    inventoryQuantity |-> TotalInventory(product.variants),
    variantCount |-> Len(product.variants),
    shopifyVariantId |-> NoVariantId ]

WithId(data, id) ==
  [ id |-> id, shopId |-> data.shopId, shopifyProductId |-> data.shopifyProductId,
    productType |-> data.productType, tags |-> data.tags, status |-> data.status,
    price |-> data.price, compareAtPrice |-> data.compareAtPrice,
    inventoryQuantity |-> data.inventoryQuantity, variantCount |-> data.variantCount,
    shopifyVariantId |-> data.shopifyVariantId ]

\* prisma update of a row with a data object that names no shopifyVariantId:
\* the column keeps its value, like the id
UpdatedRow(row, data) ==
  [WithId(data, row.id) EXCEPT !.shopifyVariantId = row.shopifyVariantId]

\* prisma.productCache.findFirst({where: {shopId, shopifyProductId}}): the
\* position of the first matching row, 0 when there is none
FindFirst(cache, shopId, pid) ==
  LET hits == {i \in 1..Len(cache) : cache[i].shopId = shopId /\ cache[i].shopifyProductId = pid}
  IN IF hits = {} THEN 0 ELSE CHOOSE i \in hits : \A j \in hits : i <= j

\* the cache after cacheProduct(shopId, product): update of the existing row
\* (the row keeps its id) or create of a new one
CacheProductStore(cache, nextId, shopId, product) ==
  LET data == ProductData(shopId, product)
      at == FindFirst(cache, shopId, product.id)
  IN IF at # 0
     THEN [cache EXCEPT ![at] = UpdatedRow(cache[at], data)]
     ELSE Append(cache, WithId(data, nextId))

cacheProduct(shopId, product) ==
  /\ productCache' = CacheProductStore(productCache, nextProductId, shopId, product)
  /\ nextProductId' = IF FindFirst(productCache, shopId, product.id) # 0
                      THEN nextProductId ELSE nextProductId + 1

\* POST /products/create and POST /products/update: both reach cacheProduct
\* after the shop lookup; an unknown shop is answered 404 and nothing changes
ProductWebhook(shop, product) ==
  /\ shop \in shops
  /\ FindFirst(productCache, shop, product.id) = 0 =>
       Len(productCache) < MaxRows /\ nextProductId <= MaxRowId
  /\ cacheProduct(shop, product)
  /\ UNCHANGED <<oauth, upserts, shops, mysteryBoxes, boxInstances, gen, upstream, sync>>

\* POST /products/delete: deleteMany of the rows of the shop with the
\* shopifyProductId
DeleteWhereAnyShop(row, shopId, pid) == row.shopifyProductId = pid

\* where: { shopId: shopData.id, shopifyProductId: product.id.toString() }
DeleteWhere(row, shopId, pid) ==
  row.shopId = shopId /\ row.shopifyProductId = pid

ProductDeleteWebhook(shop, pid) ==
  /\ shop \in shops
  /\ LET Kept(row) == ~DeleteWhere(row, shop, pid)
     IN productCache' = SelectSeq(productCache, Kept)
  /\ UNCHANGED <<oauth, upserts, shops, nextProductId, mysteryBoxes, boxInstances, gen, upstream, sync>>

\* POST /products/:productId/refresh and ShopifyService.refreshProduct: the
\* product is fetched (a response that is not ok throws, and nothing is
\* written) and handed to cacheProduct
RefreshProduct(shop, ok, product) ==
  /\ shop \in shops
  /\ ok
  /\ FindFirst(productCache, shop, product.id) = 0 =>
       Len(productCache) < MaxRows /\ nextProductId <= MaxRowId
  /\ cacheProduct(shop, product)
  /\ UNCHANGED <<oauth, upserts, shops, mysteryBoxes, boxInstances, gen, upstream, sync>>

----------------------------------------------------------------------------
(* Mystery box templates: POST / and PUT /:id of the mystery box routes *)

DefaultMinItems == 1

DefaultMaxItems == 10

\* parseInt(x) || dflt: an absent field and 0 both give the default
ParseIntOr(x, dflt) == IF x = Undefined \/ x = 0 THEN dflt ELSE x

FindBox(boxes, id, shop) ==
  LET hits == {i \in 1..Len(boxes) : boxes[i].id = id /\ boxes[i].shopId = shop}
  IN IF hits = {} THEN 0 ELSE CHOOSE i \in hits : TRUE

\* the mysteryBoxData object of the create route
MysteryBoxData(shop, id, body) ==
  [ id |-> id,
    shopId |-> shop,
    minValue |-> body.minValue,
    maxValue |-> body.maxValue,
    minItems |-> ParseIntOr(body.minItems, DefaultMinItems),
    maxItems |-> ParseIntOr(body.maxItems, DefaultMaxItems),
    includeTags |-> StringifyOrEmpty(body.includeTags),
    excludeTags |-> StringifyOrEmpty(body.excludeTags),
    includeProductTypes |-> StringifyOrEmpty(body.includeProductTypes),
    excludeProductTypes |-> StringifyOrEmpty(body.excludeProductTypes),
    isActive |-> IF body.isActive = "undefined" THEN TRUE ELSE body.isActive = "true" ]

\* the request is answered 400 or 404 and nothing is stored unless this holds
CreateAccepted(shop, body) ==
  /\ body.minValue # Undefined
  /\ body.maxValue # Undefined
  /\ shop \in shops
  /\ ~(body.minValue > body.maxValue)

CreateBox(shop, body) ==
  /\ CreateAccepted(shop, body)
  /\ Len(mysteryBoxes) < MaxBoxes
  /\ mysteryBoxes' = Append(mysteryBoxes, MysteryBoxData(shop, Len(mysteryBoxes) + 1, body))
  /\ UNCHANGED <<oauth, upserts, shops, productCache, nextProductId, boxInstances, gen, upstream, sync>>

\* the updatedData of the update route applied to the stored row: every
\* field present in the body replaces the stored one, unchecked
UpdatedBox(box, body) ==
  [ id |-> box.id,
    shopId |-> box.shopId,
    minValue |-> IF body.minValue # Undefined THEN body.minValue ELSE box.minValue,
    maxValue |-> IF body.maxValue # Undefined THEN body.maxValue ELSE box.maxValue,
    minItems |-> IF body.minItems # Undefined THEN body.minItems ELSE box.minItems,
    maxItems |-> IF body.maxItems # Undefined THEN body.maxItems ELSE box.maxItems,
    includeTags |-> IF body.includeTags # JsonUndefined
                    THEN Stringify(body.includeTags) ELSE box.includeTags,
    excludeTags |-> IF body.excludeTags # JsonUndefined
                    THEN Stringify(body.excludeTags) ELSE box.excludeTags,
    includeProductTypes |-> IF body.includeProductTypes # JsonUndefined
                            THEN Stringify(body.includeProductTypes)
                            ELSE box.includeProductTypes,
    excludeProductTypes |-> IF body.excludeProductTypes # JsonUndefined
                            THEN Stringify(body.excludeProductTypes)
                            ELSE box.excludeProductTypes,
    isActive |-> IF body.isActive # "undefined" THEN body.isActive = "true" ELSE box.isActive ]

UpdateBox(shop, id, body) ==
  /\ FindBox(mysteryBoxes, id, shop) # 0
  /\ LET at == FindBox(mysteryBoxes, id, shop)
     IN mysteryBoxes' = [mysteryBoxes EXCEPT ![at] = UpdatedBox(mysteryBoxes[at], body)]
  /\ UNCHANGED <<oauth, upserts, shops, productCache, nextProductId, boxInstances, gen, upstream, sync>>

\* a request body with every field absent
EmptyBody ==
  [ minValue |-> Undefined, maxValue |-> Undefined, minItems |-> Undefined,
    maxItems |-> Undefined, includeTags |-> JsonUndefined,
    excludeTags |-> JsonUndefined, includeProductTypes |-> JsonUndefined,
    excludeProductTypes |-> JsonUndefined, isActive |-> "undefined" ]

----------------------------------------------------------------------------
(* MysteryBoxService: filters *)

MinPrice == 1

\* the productType condition of whereClause: the exclude assignment
\* overwrites the include assignment
ProductTypeWhere(p, includeProductTypes, excludeProductTypes) ==
  IF Len(excludeProductTypes) > 0 THEN p.productType \notin Range(excludeProductTypes)
  ELSE IF Len(includeProductTypes) > 0 THEN p.productType \in Range(includeProductTypes)
  ELSE TRUE

\* the where clause without its inventoryQuantity condition
WhereClauseAnyStock(p, shopId, includeProductTypes, excludeProductTypes) ==
  /\ p.shopId = shopId
  /\ p.status = "active"
  /\ p.price >= MinPrice
  /\ ProductTypeWhere(p, includeProductTypes, excludeProductTypes)

\* the whereClause without the shopId
WhereClauseAnyShop(p, shopId, includeProductTypes, excludeProductTypes) ==
  /\ p.status = "active"
  /\ p.inventoryQuantity > 0
  /\ p.price >= MinPrice
  /\ ProductTypeWhere(p, includeProductTypes, excludeProductTypes)

\* prisma.productCache.findMany({where: whereClause})
WhereClause(p, shopId, includeProductTypes, excludeProductTypes) ==
  /\ p.shopId = shopId
  /\ p.status = "active"
  /\ p.inventoryQuantity > 0
  /\ p.price >= MinPrice
  /\ ProductTypeWhere(p, includeProductTypes, excludeProductTypes)

\* tags.some(tag => productTags.some(pTag => pTag.toLowerCase().includes(tag.toLowerCase())))
SomeTagMatches(tags, productTags) ==
  \E i \in 1..Len(tags) : \E j \in 1..Len(productTags) :
    Includes(ToLowerCase(productTags[j]), ToLowerCase(tags[i]))

\* the callback of allProducts.filter: includeTags and excludeTags are the
\* parsed template columns, which are null when the column holds the text
\* null; reading .length of null, or .some of a value that is no array,
\* throws inside the try block, and the catch keeps the product
TagFilter(p, includeTags, excludeTags) ==
  IF includeTags.json # "array" THEN TRUE
  ELSE IF Len(includeTags.v) > 0 /\ p.tags.json # "array" THEN TRUE
  ELSE IF Len(includeTags.v) > 0 /\ ~SomeTagMatches(includeTags.v, p.tags.v) THEN FALSE
  ELSE IF excludeTags.json # "array" THEN TRUE
  ELSE IF Len(excludeTags.v) > 0 /\ p.tags.json # "array" THEN TRUE
  ELSE IF Len(excludeTags.v) > 0 /\ SomeTagMatches(excludeTags.v, p.tags.v) THEN FALSE
  ELSE TRUE

\* filteredProducts of generateMysteryBox for a template whose product type
\* columns parse to arrays
FilteredProducts(cache, cfg) ==
  LET Keep(p) ==
        /\ WhereClause(p, cfg.shopId, cfg.includeProductTypes.v, cfg.excludeProductTypes.v)
        /\ TagFilter(p, cfg.includeTags, cfg.excludeTags)
  IN SelectSeq(cache, Keep)

----------------------------------------------------------------------------
(* MysteryBoxService: selection *)

MaxAttempts == 1000

\* the values of Math.floor(Math.random() * k), Math.random() in [0, 1)
FloorRandom(k) == IF k > 0 THEN 0..(k - 1) ELSE k..0

\* targetItems of selectProducts
TargetItemsOf(minItems, maxItems) ==
  {minItems + f : f \in FloorRandom(maxItems - minItems + 1)}

\* targetValue of selectProducts times RandSteps, for Math.random() = j / RandSteps
TargetValueOf(minValue, maxValue) ==
  {minValue * RandSteps + j * (maxValue - minValue) : j \in 0..(RandSteps - 1)}

\* availableProducts without the filter on the products already selected
AvailableProductsWithChosen(sortedProducts, selected, targetValue, currentValue) ==
  LET remainingValue == targetValue - currentValue * RandSteps
      Fits(p) == /\ p.price * RandSteps <= remainingValue
                 /\ p.price >= MinPrice
  IN SelectSeq(sortedProducts, Fits)

\* availableProducts of one iteration of the main loop
AvailableProducts(sortedProducts, selected, targetValue, currentValue) ==
  LET remainingValue == targetValue - currentValue * RandSteps
      Fits(p) == /\ p \notin Range(selected)
                 /\ p.price * RandSteps <= remainingValue
                 /\ p.price >= MinPrice
  IN SelectSeq(sortedProducts, Fits)

\* the number of leading available products the random index ranges over
PickRange(available, selected, minItems) ==
  IF Len(selected) < minItems THEN Min(Len(available), 3) ELSE Len(available)

\* the break of the main loop without the test against targetValue
HitTargetItemsOnly(currentValue, count, cfg, targetValue, targetItems) ==
  /\ currentValue >= cfg.minValue
  /\ count >= cfg.minItems
  /\ count >= targetItems

\* the break at the end of an iteration of the main loop
HitTarget(currentValue, count, cfg, targetValue, targetItems) ==
  /\ currentValue >= cfg.minValue
  /\ count >= cfg.minItems
  /\ \/ currentValue * RandSteps * 10 >= targetValue * 9
     \/ count >= targetItems

RECURSIVE FallbackFirst(_, _, _, _)
\* the first loop of selectProductsFallback over the products by price descending
FallbackFirst(rest, selected, currentValue, cfg) ==
  IF rest = <<>> THEN [selected |-> selected, currentValue |-> currentValue]
  ELSE IF Len(selected) >= cfg.maxItems
       THEN [selected |-> selected, currentValue |-> currentValue]
  ELSE IF currentValue + Head(rest).price > cfg.maxValue
       THEN FallbackFirst(Tail(rest), selected, currentValue, cfg)
  ELSE IF /\ currentValue + Head(rest).price >= cfg.minValue
          /\ Len(selected) + 1 >= cfg.minItems
       THEN [selected |-> Append(selected, Head(rest)),
             currentValue |-> currentValue + Head(rest).price]
  ELSE FallbackFirst(Tail(rest), Append(selected, Head(rest)),
                     currentValue + Head(rest).price, cfg)

RECURSIVE FallbackCheapest(_, _, _, _)
\* the second loop of selectProductsFallback over the cheapest products
FallbackCheapest(rest, selected, currentValue, cfg) ==
  IF rest = <<>> THEN selected
  ELSE IF Len(selected) >= cfg.minItems THEN selected
  ELSE IF currentValue + Head(rest).price > cfg.maxValue
       THEN FallbackCheapest(Tail(rest), selected, currentValue, cfg)
  ELSE FallbackCheapest(Tail(rest), Append(selected, Head(rest)),
                        currentValue + Head(rest).price, cfg)

selectProductsFallback(products, cfg) ==
  LET first == FallbackFirst(SortDesc(products), <<>>, 0, cfg)
      NotSelected(p) == p \notin Range(first.selected)
  IN IF Len(first.selected) < cfg.minItems
     THEN FallbackCheapest(SortAsc(SelectSeq(products, NotSelected)),
                           first.selected, first.currentValue, cfg)
     ELSE first.selected

\* selectProducts returning its selection without the check of the minimums
SelectionResultUnchecked(products, selected, currentValue, cfg) == selected

\* the return of selectProducts once the main loop has ended
SelectionResult(products, selected, currentValue, cfg) ==
  IF Len(selected) < cfg.minItems \/ currentValue < cfg.minValue
  THEN selectProductsFallback(products, cfg)
  ELSE selected

\* p.compareAtPrice || p.price
CompareAtOrPrice(p) == IF p.compareAtPrice # 0 THEN p.compareAtPrice ELSE p.price

\* the difference without the floor at zero
calculateSavingsUnclamped(products, totalValue) ==
  SumSeq([i \in 1..Len(products) |-> CompareAtOrPrice(products[i])]) - totalValue

calculateSavings(products, totalValue) ==
  Max(0, SumSeq([i \in 1..Len(products) |-> CompareAtOrPrice(products[i])]) - totalValue)

TotalValue(products) == SumSeq([i \in 1..Len(products) |-> products[i].price])

----------------------------------------------------------------------------
(* POST /:id/generate and MysteryBoxService.generateMysteryBox *)

Callers == {1, 2}

NoBox == MysteryBoxData(0, 0, EmptyBody)

NoResponse == [id |-> 0, products |-> <<>>, totalValue |-> 0, itemCount |-> 0, savings |-> 0]

\* a quotient of two integers, kept exact
Quotient(num, den) == [num |-> num, den |-> den]

\* the object that getStatistics returns when there is no instance
NoStats ==
  [ totalGenerated |-> 0, averageValue |-> Quotient(0, 1), averageItems |-> Quotient(0, 1),
    totalValue |-> 0, valueRange |-> [min |-> 0, max |-> 0],
    itemRange |-> [min |-> 0, max |-> 0] ]

IdleGen ==
  [ pc |-> "idle", cfg |-> NoBox, products |-> <<>>, selected |-> <<>>,
    currentValue |-> 0, attempts |-> 0, targetValue |-> 0, targetItems |-> 0,
    outcome |-> "none", bundle |-> <<>>, response |-> NoResponse,
    startCache |-> <<>>,   \* the catalog that findMany read
    stats |-> NoStats ]

\* the request ends without a selection: 404, 400, or an error thrown by
\* generateMysteryBox and answered 500
Failed(cfg, products, outcome) ==
  [IdleGen EXCEPT !.pc = "done", !.cfg = cfg, !.products = products, !.outcome = outcome]

\* the route up to the call of selectProducts, and the draws of targetValue
\* and targetItems
GenStart(c, shop, id) ==
  /\ gen[c].pc = "idle"
  /\ LET at == FindBox(mysteryBoxes, id, shop)
         cfg == IF at = 0 THEN NoBox ELSE mysteryBoxes[at]
     IN IF at = 0 THEN gen' = [gen EXCEPT ![c] = Failed(NoBox, <<>>, "NotFound")]
        ELSE IF ~cfg.isActive THEN gen' = [gen EXCEPT ![c] = Failed(cfg, <<>>, "NotActive")]
        ELSE IF shop \notin shops
             THEN gen' = [gen EXCEPT ![c] = Failed(cfg, <<>>, "ShopNotFound")]
        ELSE IF \/ cfg.includeProductTypes.json # "array"
                \/ cfg.excludeProductTypes.json # "array"
             THEN gen' = [gen EXCEPT ![c] = Failed(cfg, <<>>, "TypeError")]
        ELSE LET filteredProducts == FilteredProducts(productCache, cfg)
             IN IF filteredProducts = <<>>
                THEN gen' = [gen EXCEPT ![c] = Failed(cfg, <<>>, "NoProducts")]
                ELSE \E tv \in TargetValueOf(cfg.minValue, cfg.maxValue) :
                     \E ti \in TargetItemsOf(cfg.minItems, cfg.maxItems) :
                       gen' = [gen EXCEPT ![c] =
                                 [IdleGen EXCEPT !.pc = "loop", !.cfg = cfg,
                                                 !.products = filteredProducts,
                                                 !.targetValue = tv, !.targetItems = ti,
                                                 !.startCache = productCache]]
  /\ UNCHANGED <<oauth, upserts, shops, productCache, nextProductId, mysteryBoxes, boxInstances, upstream, sync>>

\* while (selected.length < targetItems && attempts < maxAttempts)
LoopCondition(g) == Len(g.selected) < g.targetItems /\ g.attempts < MaxAttempts

\* one iteration of the main loop of selectProducts
PrimaryStep(c) ==
  /\ gen[c].pc = "loop"
  /\ LoopCondition(gen[c])
  /\ LET g == gen[c]
         available == AvailableProducts(SortAsc(g.products), g.selected,
                                        g.targetValue, g.currentValue)
     IN IF available = <<>>
        THEN gen' = [gen EXCEPT ![c].attempts = g.attempts + 1, ![c].pc = "break"]
        ELSE \E k \in 1..PickRange(available, g.selected, g.cfg.minItems) :
               LET selectedProduct == available[k]
                   value == g.currentValue + selectedProduct.price
                   count == Len(g.selected) + 1
               IN gen' = [gen EXCEPT
                            ![c].attempts = g.attempts + 1,
                            ![c].selected = Append(g.selected, selectedProduct),
                            ![c].currentValue = value,
                            ![c].pc = IF HitTarget(value, count, g.cfg,
                                                   g.targetValue, g.targetItems)
                                      THEN "break" ELSE "loop"]
  /\ UNCHANGED <<oauth, upserts, shops, productCache, nextProductId, mysteryBoxes, boxInstances, upstream, sync>>

\* the entry of one selected product in boxInstance.products
InstanceProduct(p) ==
  [ shopifyProductId |-> p.shopifyProductId, price |-> p.price,
    compareAtPrice |-> p.compareAtPrice, productType |-> p.productType ]

\* the call returning without prisma.boxInstance.create
CreateBoxInstanceNone(table, data) == table

\* prisma.boxInstance.create
CreateBoxInstance(table, data) == Append(table, data)

\* the end of selectProducts (with the fallback), the totals, the create of
\* the box instance and the returned object
GenFinish(c) ==
  /\ \/ gen[c].pc = "break"
     \/ gen[c].pc = "loop" /\ ~LoopCondition(gen[c])
  /\ LET g == gen[c]
         selectedProducts == SelectionResult(g.products, g.selected, g.currentValue, g.cfg)
         totalValue == TotalValue(selectedProducts)
         itemCount == Len(selectedProducts)
         products == [i \in 1..itemCount |-> InstanceProduct(selectedProducts[i])]
     IN /\ boxInstances' = CreateBoxInstance(boxInstances,
                                  [ mysteryBoxId |-> g.cfg.id, products |-> products,
                                    totalValue |-> totalValue, itemCount |-> itemCount ])
        /\ gen' = [gen EXCEPT
                     ![c].pc = "done",
                     ![c].outcome = "ok",
                     ![c].bundle = selectedProducts,
                     ![c].response = [ id |-> Len(boxInstances) + 1,
                                       products |-> products,
                                       totalValue |-> totalValue,
                                       itemCount |-> itemCount,
                                       savings |-> calculateSavings(products, totalValue) ]]
  /\ UNCHANGED <<oauth, upserts, shops, productCache, nextProductId, mysteryBoxes, upstream, sync>>

----------------------------------------------------------------------------
(* Statistics of a template: MysteryBoxService.getStatistics *)

\* the where clause of getStatistics without the mysteryBoxId
StatsWhereAnyBox(instance, boxes, shop, id) ==
  \E i \in 1..Len(boxes) :
    boxes[i].id = instance.mysteryBoxId /\ boxes[i].shopId = shop

\* where: { mysteryBoxId, mysteryBox: { shop: { shopDomain: shop } } }
StatsWhere(instance, boxes, shop, id) ==
  /\ instance.mysteryBoxId = id
  /\ \E i \in 1..Len(boxes) :
       boxes[i].id = instance.mysteryBoxId /\ boxes[i].shopId = shop

RECURSIVE MinOf(_)
\* Math.min(...values) of a list that is not empty
MinOf(values) ==
  IF Len(values) = 1 THEN values[1] ELSE Min(Head(values), MinOf(Tail(values)))

RECURSIVE MaxOf(_)
\* Math.max(...values) of a list that is not empty
MaxOf(values) ==
  IF Len(values) = 1 THEN values[1] ELSE Max(Head(values), MaxOf(Tail(values)))

getStatistics(instancesTable, boxes, shop, id) ==
  LET Hit(instance) == StatsWhere(instance, boxes, shop, id)
      instances == SelectSeq(instancesTable, Hit)
      totalGenerated == Len(instances)
      values == [i \in 1..Len(instances) |-> instances[i].totalValue]
      itemCounts == [i \in 1..Len(instances) |-> instances[i].itemCount]
      totalValue == SumSeq(values)
      totalItems == SumSeq(itemCounts)
  IN IF Len(instances) = 0 THEN NoStats
     ELSE [ totalGenerated |-> totalGenerated,
            averageValue |-> Quotient(totalValue, totalGenerated),
            averageItems |-> Quotient(totalItems, totalGenerated),
            totalValue |-> totalValue,
            valueRange |-> [min |-> MinOf(values), max |-> MaxOf(values)],
            itemRange |-> [min |-> MinOf(itemCounts), max |-> MaxOf(itemCounts)] ]

\* a call of getStatistics by caller c
GetStatistics(c, shop, id) ==
  /\ gen[c].pc = "idle"
  /\ gen' = [gen EXCEPT ![c] =
               [IdleGen EXCEPT !.pc = "done", !.outcome = "stats",
                               !.cfg = [NoBox EXCEPT !.id = id, !.shopId = shop],
                               !.stats = getStatistics(boxInstances, mysteryBoxes, shop, id)]]
  /\ UNCHANGED <<oauth, upserts, shops, productCache, nextProductId, mysteryBoxes, boxInstances, upstream, sync>>

----------------------------------------------------------------------------
(* Catalog sync: LiveShopifyService (the sync routes) and                  *)
(* ShopifyService.syncProducts (the inventory webhook)                     *)

SyncMaxPages == 50

IdleSync ==
  [ pc |-> "idle", kind |-> "none", shop |-> 0, pageInfo |-> 0, hasNextPage |-> FALSE,
    allProducts |-> <<>>, pageCount |-> 0, idx |-> 1, created |-> 0, updated |-> 0,
    syncedCount |-> 0, errorCount |-> 0, fetchFailed |-> FALSE,
    itemFailures |-> 0,   \* the store writes that failed in this run
    before |-> <<>>,      \* the catalog when the run started
    prev |-> "none" ]     \* the kind of the run before, if it ended without an error

\* the HTTP response of GET /products.json for page number page: the body,
\* and the Link header, which names the next page (0: no rel="next" link)
HttpResponse(pages, page) ==
  [ data |-> [products |-> pages[page]],
    headers |-> [link |-> IF page < Len(pages) THEN page + 1 ELSE 0] ]

\* LiveShopifyService.makeRequest: return response.data
makeRequest(pages, page) == HttpResponse(pages, page).data

\* response.headers?.link of getAllProducts, read from what makeRequest
\* returned; 0 stands for undefined
LinkHeaderOf(response) ==
  IF "headers" \in DOMAIN response THEN response.headers.link ELSE 0

\* the productData object of LiveShopifyService.syncProducts, for a product
\* that has a variant
LiveProductData(shopId, product) ==
  [ shopId |-> shopId,
    shopifyProductId |-> product.id,
    productType |-> product.product_type,
    tags |-> JsonArray(ParseTags(product.tags)),
    status |-> product.status,
    price |-> product.variants[1].price,
    compareAtPrice |-> product.variants[1].compare_at_price,
    inventoryQuantity |-> TotalInventory(product.variants),
    variantCount |-> Len(product.variants),
    shopifyVariantId |-> NoVariantId ]

\* prisma.productCache.upsert keyed by shopId_shopifyProductId
UpsertStore(cache, nextId, data) ==
  LET at == FindFirst(cache, data.shopId, data.shopifyProductId)
  IN IF at # 0 THEN [cache EXCEPT ![at] = UpdatedRow(cache[at], data)]
     ELSE Append(cache, WithId(data, nextId))

\* the productData object of the per-variant LiveShopifyService.syncProducts
\* for variant number k of the product; the variant id is the pair of the
\* product id and k
VariantProductData(shopId, product, k) ==
  [ shopId |-> shopId,
    shopifyProductId |-> product.id,
    productType |-> product.product_type,
    tags |-> JsonArray(ParseTags(product.tags)),
    status |-> product.status,
    price |-> product.variants[k].price,
    compareAtPrice |-> product.variants[k].compare_at_price,
    inventoryQuantity |-> product.variants[k].inventory_quantity,
    variantCount |-> Len(product.variants),
    shopifyVariantId |-> <<product.id, k>> ]

\* the position of the row of shopId with shopifyVariantId vid, 0 when there
\* is none
FindVariant(cache, shopId, vid) ==
  LET hits == {i \in 1..Len(cache) : cache[i].shopId = shopId /\ cache[i].shopifyVariantId = vid}
  IN IF hits = {} THEN 0 ELSE CHOOSE i \in hits : \A j \in hits : i <= j

RECURSIVE UpsertVariants(_, _, _, _, _, _)
\* prisma.productCache.upsert keyed by shopId_shopifyVariantId for the
\* variants k..n of the product, in order
UpsertVariants(cache, nextId, shopId, product, k, n) ==
  IF k > n THEN [cache |-> cache, nextId |-> nextId]
  ELSE LET data == VariantProductData(shopId, product, k)
           at == FindVariant(cache, shopId, data.shopifyVariantId)
       IN IF at # 0
          THEN UpsertVariants([cache EXCEPT ![at] = WithId(data, cache[at].id)],
                              nextId, shopId, product, k + 1, n)
          ELSE UpsertVariants(Append(cache, WithId(data, nextId)),
                              nextId + 1, shopId, product, k + 1, n)

SyncIdle == sync.pc \in {"idle", "done", "failed"}

\* the run has returned its report, and no fetch and no write of it failed
CleanRun ==
  /\ sync.pc = "done"
  /\ ~sync.fetchFailed
  /\ sync.itemFailures = 0
  /\ sync.errorCount = 0

\* what the run that starts now records of the run before it
PrevRun == IF CleanRun THEN sync.kind ELSE "none"

\* LiveShopifyService.syncProducts up to the call of getAllProducts: the
\* shop row is upserted
LiveSyncStart(shop) ==
  /\ SyncIdle
  /\ shops' = shops \cup {shop}
  /\ sync' = [IdleSync EXCEPT !.pc = "fetch", !.kind = "live", !.shop = shop,
                              !.hasNextPage = TRUE, !.before = productCache,
                              !.prev = PrevRun]
  /\ UNCHANGED <<oauth, upserts, productCache, nextProductId, mysteryBoxes, boxInstances, gen, upstream>>

\* the per-variant LiveShopifyService.syncProducts up to the call of
\* getAllProducts
VariantSyncStart(shop) ==
  /\ SyncIdle
  /\ shops' = shops \cup {shop}
  /\ sync' = [IdleSync EXCEPT !.pc = "fetch", !.kind = "variant", !.shop = shop,
                              !.hasNextPage = TRUE, !.before = productCache,
                              !.prev = PrevRun]
  /\ UNCHANGED <<oauth, upserts, productCache, nextProductId, mysteryBoxes, boxInstances, gen, upstream>>

\* one iteration of the while loop of getAllProducts; a request that fails
\* is caught and ends the loop with the products fetched so far
LiveFetchPage(ok) ==
  /\ sync.pc = "fetch"
  /\ sync.kind \in {"live", "variant"}
  /\ IF ~sync.hasNextPage
     THEN sync' = [sync EXCEPT !.pc = "items"]
     ELSE IF ~ok
     THEN sync' = [sync EXCEPT !.pc = "items", !.fetchFailed = TRUE]
     ELSE LET page == IF sync.pageInfo = 0 THEN 1 ELSE sync.pageInfo
              response == makeRequest(upstream, page)
              linkHeader == LinkHeaderOf(response)
          IN sync' = [sync EXCEPT !.allProducts = sync.allProducts \o response.products,
                                  !.pageCount = sync.pageCount + 1,
                                  !.hasNextPage = (linkHeader # 0),
                                  !.pageInfo = linkHeader]
  /\ UNCHANGED <<oauth, upserts, shops, productCache, nextProductId, mysteryBoxes, boxInstances, gen, upstream>>

\* one iteration of the for loop of LiveShopifyService.syncProducts: a
\* product without variants is skipped by continue, the others are upserted.
\* A write that fails (ok = FALSE) throws into the catch block of the
\* iteration, which reads primaryVariant, a const of the try block, before
\* it counts the error: the ReferenceError leaves the loop and syncProducts
\* rethrows it
LiveSyncItem(ok) ==
  /\ sync.pc = "items"
  /\ sync.kind = "live"
  /\ sync.idx <= Len(sync.allProducts)
  /\ LET product == sync.allProducts[sync.idx]
     IN IF product.variants = <<>>
        THEN /\ sync' = [sync EXCEPT !.idx = sync.idx + 1]
             /\ UNCHANGED <<productCache, nextProductId>>
        ELSE IF ~ok
        THEN /\ sync' = [sync EXCEPT !.pc = "failed",
                                     !.itemFailures = sync.itemFailures + 1]
             /\ UNCHANGED <<productCache, nextProductId>>
        ELSE LET data == LiveProductData(sync.shop, product)
             IN /\ productCache' = UpsertStore(productCache, nextProductId, data)
                /\ nextProductId' = IF FindFirst(productCache, sync.shop, product.id) # 0
                                    THEN nextProductId ELSE nextProductId + 1
                /\ sync' = [sync EXCEPT !.idx = sync.idx + 1,
                                        !.syncedCount = sync.syncedCount + 1]
  /\ UNCHANGED <<oauth, upserts, shops, mysteryBoxes, boxInstances, gen, upstream>>

\* one iteration of the for loop of the per-variant syncProducts: the
\* variants are upserted in order; stored is the number of writes that
\* succeed, and a write that fails is caught and counted once for the product
VariantSyncItem(stored) ==
  /\ sync.pc = "items"
  /\ sync.kind = "variant"
  /\ sync.idx <= Len(sync.allProducts)
  /\ LET product == sync.allProducts[sync.idx]
         failed == stored < Len(product.variants)
         after == UpsertVariants(productCache, nextProductId, sync.shop, product, 1, stored)
     IN /\ stored <= Len(product.variants)
        /\ productCache' = after.cache
        /\ nextProductId' = after.nextId
        /\ sync' = [sync EXCEPT !.idx = sync.idx + 1,
                                !.syncedCount = sync.syncedCount + stored,
                                !.errorCount = IF failed THEN sync.errorCount + 1
                                               ELSE sync.errorCount,
                                !.itemFailures = IF failed THEN sync.itemFailures + 1
                                                 ELSE sync.itemFailures]
  /\ UNCHANGED <<oauth, upserts, shops, mysteryBoxes, boxInstances, gen, upstream>>

\* the report of LiveShopifyService.syncProducts
LiveSyncDone ==
  /\ sync.pc = "items"
  /\ sync.kind \in {"live", "variant"}
  /\ sync.idx > Len(sync.allProducts)
  /\ sync' = [sync EXCEPT !.pc = "done"]
  /\ UNCHANGED <<oauth, upserts, shops, productCache, nextProductId, mysteryBoxes, boxInstances, gen, upstream>>

\* ShopifyService.syncProducts up to its fetch loop: an unknown shop throws
RestSyncStart(shop) ==
  /\ SyncIdle
  /\ sync' = IF shop \in shops
             THEN [IdleSync EXCEPT !.pc = "fetch", !.kind = "rest", !.shop = shop,
                                   !.before = productCache, !.prev = PrevRun]
             ELSE [IdleSync EXCEPT !.pc = "failed", !.kind = "rest", !.shop = shop]
  /\ UNCHANGED <<oauth, upserts, shops, productCache, nextProductId, mysteryBoxes, boxInstances, gen, upstream>>

\* the do-while loop of ShopifyService.syncProducts without its page ceiling
LoopContinuesUncapped(nextPageInfo, pageCount) == nextPageInfo # 0

\* while (nextPageInfo && pageCount < maxPages)
LoopContinues(nextPageInfo, pageCount) ==
  nextPageInfo # 0 /\ pageCount < SyncMaxPages

\* one iteration of the do-while loop of ShopifyService.syncProducts: the
\* page is fetched with fetch(), whose response carries the Link header; a
\* response that is not ok throws
RestFetchPage(ok) ==
  /\ sync.pc = "fetch"
  /\ sync.kind = "rest"
  /\ IF ~ok
     THEN sync' = [sync EXCEPT !.pc = "failed", !.fetchFailed = TRUE]
     ELSE LET page == IF sync.pageInfo = 0 THEN 1 ELSE sync.pageInfo
              response == HttpResponse(upstream, page)
              nextPageInfo == response.headers.link
              pageCount == sync.pageCount + 1
          IN sync' = [sync EXCEPT !.allProducts = sync.allProducts \o response.data.products,
                                  !.pageInfo = nextPageInfo,
                                  !.pageCount = pageCount,
                                  !.pc = IF LoopContinues(nextPageInfo, pageCount)
                                         THEN "fetch" ELSE "items"]
  /\ UNCHANGED <<oauth, upserts, shops, productCache, nextProductId, mysteryBoxes, boxInstances, gen, upstream>>

\* one iteration of the cache loop of ShopifyService.syncProducts; a write
\* that fails (ok = FALSE) makes cacheProduct throw, and syncProducts, which
\* has no handler inside the loop, rethrows
RestCacheItem(ok) ==
  /\ sync.pc = "items"
  /\ sync.kind = "rest"
  /\ sync.idx <= Len(sync.allProducts)
  /\ LET product == sync.allProducts[sync.idx]
         existing == FindFirst(productCache, sync.shop, product.id) # 0
     IN IF ~ok
        THEN /\ sync' = [sync EXCEPT !.pc = "failed",
                                     !.itemFailures = sync.itemFailures + 1]
             /\ UNCHANGED <<productCache, nextProductId>>
        ELSE /\ cacheProduct(sync.shop, product)
             /\ sync' = [sync EXCEPT !.idx = sync.idx + 1,
                                     !.created = IF existing THEN sync.created ELSE sync.created + 1,
                                     !.updated = IF existing THEN sync.updated + 1 ELSE sync.updated]
  /\ UNCHANGED <<oauth, upserts, shops, mysteryBoxes, boxInstances, gen, upstream>>

\* the report of ShopifyService.syncProducts
RestSyncDone ==
  /\ sync.pc = "items"
  /\ sync.kind = "rest"
  /\ sync.idx > Len(sync.allProducts)
  /\ sync' = [sync EXCEPT !.pc = "done"]
  /\ UNCHANGED <<oauth, upserts, shops, productCache, nextProductId, mysteryBoxes, boxInstances, gen, upstream>>

----------------------------------------------------------------------------
(* Inputs: the payloads of the Shopify product API *)

Variant(price, compare_at_price, inventory_quantity) ==
  [ price |-> price, compare_at_price |-> compare_at_price,
    inventory_quantity |-> inventory_quantity ]

RawProduct(id, product_type, tags, status, variants) ==
  [ id |-> id, product_type |-> product_type, tags |-> tags, status |-> status,
    variants |-> variants ]

RECURSIVE CacheAll(_, _, _, _)
\* the cache after cacheProduct of every payload of raws, in order
CacheAll(raws, cache, nextId, shopId) ==
  IF raws = <<>> THEN cache
  ELSE LET stored == CacheProductStore(cache, nextId, shopId, Head(raws))
       IN CacheAll(Tail(raws), stored, Len(stored) + 1, shopId)

\* in-stock active products of one type without tags: a price in
\* 1..MaxPrice, and the compare-at price that mirrors the price in
\* 1..MaxPrice, above the low prices and below the high; product 1 also
\* comes without a compare-at price (0)
PricedProducts(id) ==
  UNION { { RawProduct(id, "Apparel", <<>>, "active", <<Variant(price, compare, 1)>>) :
              compare \in {MaxPrice + 1 - price} \cup (IF id = 1 THEN {0} ELSE {}) }
          : price \in 1..MaxPrice }

\* the catalogs of shop 1 that hold products 1..n, n <= MaxRows, each
\* written by cacheProduct
PricedCatalogs ==
  UNION { { CacheAll(raws, <<>>, 1, 1) :
              raws \in { r \in [1..n -> UNION {PricedProducts(id) : id \in 1..n}] :
                           \A i \in 1..n : r[i].id = i } }
          : n \in 0..MaxRows }

\* "Sa" and "n, Sa": the tags column of the payload is comma separated
TagsSa == <<"S", "a">>

TagsNSa == <<"n", ",", " ", "S", "a">>

\* products that differ in type and tags, and products that the where
\* clause must drop: a draft, one out of stock, one that is free
FilterProducts(id) ==
  { RawProduct(id, type, tags, "active", <<Variant(1, 0, 1)>>) :
      type \in {"Apparel", "Electronics"}, tags \in {<<>>, TagsSa, TagsNSa} }
  \cup { RawProduct(id, "Apparel", <<>>, "draft", <<Variant(1, 0, 1)>>),
         RawProduct(id, "Apparel", <<>>, "active", <<Variant(1, 0, 0)>>),
         RawProduct(id, "Apparel", <<>>, "active", <<Variant(0, 0, 1)>>) }

FilterCatalogs ==
  UNION { { CacheAll(raws, <<>>, 1, 1) :
              raws \in { r \in [1..n -> UNION {FilterProducts(id) : id \in 1..n}] :
                           \A i \in 1..n : r[i].id = i } }
          : n \in 0..MaxFilterRows }

\* upstream products: without variants, with one variant, and (product 1)
\* with MaxVariants variants, the first dearer than the others and marked down
SyncProducts ==
  UNION { { RawProduct(id, "Apparel", <<>>, "active", <<>>),
            RawProduct(id, "Apparel", TagsSa, "active", <<Variant(1, 0, 1)>>) }
          : id \in 1..MaxSyncIds }
  \cup { RawProduct(1, "Apparel", <<>>, "active",
                    [k \in 1..MaxVariants |->
                       IF k = 1 THEN Variant(2, 1, 1) ELSE Variant(1, 0, k)]) }

\* the payloads of product id that the write paths receive: without
\* variants, in stock, oversold (a negative inventory_quantity), and
\* (product 1) with MaxVariants variants
WriteProducts(id) ==
  { RawProduct(id, "Apparel", <<>>, "active", <<>>),
    RawProduct(id, "Apparel", TagsSa, "active", <<Variant(1, 0, 1)>>),
    RawProduct(id, "Apparel", TagsSa, "active", <<Variant(1, 0, -1)>>) }
  \cup (IF id = 1
        THEN { RawProduct(1, "Apparel", <<>>, "active",
                          [k \in 1..MaxVariants |->
                             IF k = 1 THEN Variant(2, 1, 1) ELSE Variant(1, 0, k)]) }
        ELSE {})

\* the upstream catalogs of one page that holds products 1..n, n <= MaxWriteIds
WriteCatalogs ==
  UNION { { << page >> : page \in { r \in [1..n -> UNION {WriteProducts(id) : id \in 1..n}] :
                                     \A i \in 1..n : r[i].id = i } }
          : n \in 1..MaxWriteIds }

\* the pages of 1..MaxPageSize products
SyncPages == UNION { [1..k -> SyncProducts] : k \in 1..MaxPageSize }

RECURSIVE Flatten(_)
\* the products of the pages, in page order
Flatten(pages) == IF pages = <<>> THEN <<>> ELSE Head(pages) \o Flatten(Tail(pages))

\* the upstream catalogs of 1..MaxPages pages; a product id occurs once
UpstreamCatalogs ==
  { pages \in UNION { [1..n -> SyncPages] : n \in 1..MaxPages } :
      LET all == Flatten(pages)
      IN \A i, j \in 1..Len(all) : all[i].id = all[j].id => i = j }

\* the upstream catalogs that put one product on every page: short ones, and
\* ones of more pages than the ceiling of ShopifyService.syncProducts, where
\* every page that a run fetches carries a next cursor
LongCatalogs ==
  { [n \in 1..len |-> <<product>>] :
      len \in (1..MaxPages) \cup (SyncMaxPages..(SyncMaxPages + MaxExtraPages)),
      product \in SyncProducts }

\* the upstream catalogs that carry product 1 twice, with payloads that may
\* differ, on one page or on two
RepeatCatalogs ==
  LET payloads == { product \in SyncProducts : product.id = 1 }
  IN { << <<first, later>> >> : first \in payloads, later \in payloads }
     \cup { << <<first>>, <<later>> >> : first \in payloads, later \in payloads }

\* the catalogs of shop 1 of at most MaxSelectRows in-stock items, dearest
\* first, each written by cacheProduct
SelectCatalogs ==
  { CacheAll([i \in 1..Len(prices) |->
                RawProduct(i, "Apparel", <<>>, "active", <<Variant(prices[i], 0, 1)>>)],
             <<>>, 1, 1) :
      prices \in { ps \in UNION { [1..n -> 1..MaxSelectPrice] : n \in 1..MaxSelectRows } :
                     \A i \in 1..(Len(ps) - 1) : ps[i] >= ps[i + 1] } }

\* the templates without filters that meet the template invariant, with
\* minItems 1
SelectBoxes ==
  { box \in { MysteryBoxData(1, 1, [EmptyBody EXCEPT !.minValue = a, !.maxValue = b,
                                                    !.minItems = 1, !.maxItems = n]) :
                a \in 0..MaxSelectValue, b \in 0..MaxSelectValue, n \in 1..MaxItemsArg } :
      box.minValue <= box.maxValue }

\* the catalogs of shop 1 of at most MaxRows in-stock items, each cheap
\* (price 1) or dear (one less than MaxTargetValue)
TargetCatalogs ==
  { CacheAll([i \in 1..Len(prices) |->
                RawProduct(i, "Apparel", <<>>, "active", <<Variant(prices[i], 0, 1)>>)],
             <<>>, 1, 1) :
      prices \in UNION { [1..n -> {1, MaxTargetValue - 1}] : n \in 1..MaxRows } }

\* valid templates without filters whose value range lies around
\* MaxTargetValue
TargetBoxes ==
  { MysteryBoxData(1, 1, [EmptyBody EXCEPT !.minValue = a, !.maxValue = b,
                                           !.minItems = 1, !.maxItems = n]) :
      a \in {0, MaxTargetValue - 1, MaxTargetValue},
      b \in {MaxTargetValue, MaxTargetValue + 1},
      n \in 1..MaxItemsArg }

\* the bundles of at most MaxItemsArg items, cheapest first
StatsBundles ==
  { prices \in UNION { [1..n -> 1..MaxPrice] : n \in 0..MaxItemsArg } :
      \A i \in 1..(Len(prices) - 1) : prices[i] <= prices[i + 1] }

\* the box instance that generateMysteryBox stores for a bundle of template id
StatsInstance(id, prices) ==
  [ mysteryBoxId |-> id,
    products |-> [k \in 1..Len(prices) |->
                    [ shopifyProductId |-> k, price |-> prices[k],
                      compareAtPrice |-> 0, productType |-> "Apparel" ]],
    totalValue |-> SumSeq(prices),
    itemCount |-> Len(prices) ]

\* the box instance tables of at most MaxInstances rows, of templates 1 and 2
StatsTables ==
  UNION { [1..n -> { StatsInstance(id, prices) : id \in 1..2, prices \in StatsBundles }]
          : n \in 0..MaxInstances }

----------------------------------------------------------------------------
(* Inputs: the templates that the create and update routes store *)

FilterCreateBodies ==
  { [EmptyBody EXCEPT !.minValue = 0, !.maxValue = MaxValue, !.maxItems = MaxItemsArg,
                      !.includeTags = it, !.excludeTags = et,
                      !.includeProductTypes = ip, !.excludeProductTypes = ep] :
      it \in {JsonUndefined, JsonArray(<< <<"s">> >>)},
      et \in {JsonUndefined, JsonArray(<< <<"n">> >>)},
      ip \in {JsonUndefined, JsonArray(<<"Electronics">>)},
      ep \in {JsonUndefined, JsonArray(<<"Toys">>), JsonArray(<<"Apparel">>)} }

\* an update that clears one filter by sending null for it
FilterUpdateBodies ==
  { [EmptyBody EXCEPT !.includeTags = JsonNull],
    [EmptyBody EXCEPT !.excludeTags = JsonNull],
    [EmptyBody EXCEPT !.includeProductTypes = JsonNull] }

\* create requests over the grid of values and item counts, and the one
\* that leaves minItems and maxItems to their defaults
ValueCreateBodies ==
  { [EmptyBody EXCEPT !.minValue = a, !.maxValue = b, !.minItems = m, !.maxItems = n] :
      a \in 0..MaxValue, b \in 0..MaxValue,
      m \in 1..MaxItemsArg, n \in 1..MaxItemsArg }
  \cup { [EmptyBody EXCEPT !.minValue = 0, !.maxValue = MaxValue] }

ValueUpdateBodies ==
  { [EmptyBody EXCEPT !.minValue = a] : a \in 0..MaxValue }
  \cup { [EmptyBody EXCEPT !.maxValue = a] : a \in 0..MaxValue }
  \cup { [EmptyBody EXCEPT !.minItems = m] : m \in 1..MaxItemsArg }
  \cup { [EmptyBody EXCEPT !.maxItems = m] : m \in 1..MaxItemsArg }

\* the rows of shop 1 stored by one accepted create request, possibly
\* followed by one update request
StoredBoxes(creates, updates) ==
  { UpdatedBox(MysteryBoxData(1, 1, body), upd) :
      body \in {b \in creates : CreateAccepted(1, b)}, upd \in updates \cup {EmptyBody} }

----------------------------------------------------------------------------
(* ShopifyService.cacheProduct step by step: the findFirst, then the update
   or the create, with another writer's steps in between *)

Writers == {1, 2}

\* the unique index on productCache that the schema of the build declares:
\* the one the per-product upsert names, or the one the per-variant upsert
\* names
UniqueKeys == {"shopId_shopifyProductId", "shopId_shopifyVariantId"}

NoRawProduct == RawProduct(0, "", <<>>, "active", <<>>)

IdleUpsert ==
  [ pc |-> "idle", shopId |-> 0, product |-> NoRawProduct,
    existing |-> 0,    \* existingProduct.id, 0 for null
    findAfter |-> 0,   \* the number of writes made before the findFirst
    outcome |-> "none" ]

IdleUpserts ==
  [ uniqueKey |-> "shopId_shopifyProductId", writes |-> 0,
    writers |-> [w \in Writers |-> IdleUpsert] ]

\* the create is rejected by the unique index; a row that cacheProduct
\* creates has no shopifyVariantId, and rows without one never collide
UniqueViolation(cache, key, data) ==
  /\ key = "shopId_shopifyProductId"
  /\ FindFirst(cache, data.shopId, data.shopifyProductId) # 0

\* the payloads of the upserts: product id with a first-variant price
UpsertProducts(id) ==
  { RawProduct(id, "Apparel", TagsSa, "active", <<Variant(price, 0, 1)>>) :
      price \in 1..MaxPrice }

\* the catalog before the upserts: empty, or one row of an earlier upsert
UpsertCatalogs ==
  {<<>>} \cup
  { CacheAll(<<product>>, <<>>, 1, shop) :
      shop \in Tenants, product \in UNION {UpsertProducts(id) : id \in 1..MaxWriteIds} }

\* const existingProduct = await prisma.productCache.findFirst(...)
UpsertFind(w, shop, product) ==
  /\ upserts.writers[w].pc = "idle"
  /\ shop \in shops
  /\ LET at == FindFirst(productCache, shop, product.id)
     IN upserts' = [upserts EXCEPT
                      !.writers[w] = [ pc |-> "found", shopId |-> shop, product |-> product,
                                       existing |-> IF at = 0 THEN 0 ELSE productCache[at].id,
                                       findAfter |-> upserts.writes,
                                       outcome |-> "none" ]]
  /\ UNCHANGED <<oauth, shops, productCache, nextProductId, mysteryBoxes, boxInstances, gen,
                 upstream, sync>>

\* if (existingProduct) update by id, else create; an update of a row that
\* is gone and a create that the unique index rejects throw
UpsertWrite(w) ==
  /\ upserts.writers[w].pc = "found"
  /\ LET u == upserts.writers[w]
         data == ProductData(u.shopId, u.product)
         hits == {i \in 1..Len(productCache) : productCache[i].id = u.existing}
         Ended(outcome) ==
           [upserts EXCEPT !.writes = upserts.writes + 1,
                           !.writers[w].pc = "done", !.writers[w].outcome = outcome]
     IN IF u.existing # 0
        THEN IF hits = {}
             THEN /\ upserts' = Ended("error")
                  /\ UNCHANGED <<productCache, nextProductId>>
             ELSE /\ productCache' =
                       [productCache EXCEPT
                          ![CHOOSE i \in hits : TRUE] = UpdatedRow(@, data)]
                  /\ upserts' = Ended("updated")
                  /\ UNCHANGED nextProductId
        ELSE IF UniqueViolation(productCache, upserts.uniqueKey, data)
             THEN /\ upserts' = Ended("error")
                  /\ UNCHANGED <<productCache, nextProductId>>
             ELSE /\ productCache' = Append(productCache, WithId(data, nextProductId))
                  /\ nextProductId' = nextProductId + 1
                  /\ upserts' = Ended("created")
  /\ UNCHANGED <<oauth, shops, mysteryBoxes, boxInstances, gen, upstream, sync>>

----------------------------------------------------------------------------
(* The OAuth state tokens: ShopifyService.getAuthUrl and verifyState, and
   the routes GET /shopify/install and GET /shopify/callback *)

\* the values that crypto.randomBytes(16).toString('hex') can return
Tokens == 1..MaxTokens

\* 10 minutes, in milliseconds
StateTtl == 600000

\* the milliseconds between two readings of Date.now()
Tick == 300000

\* Date.now() at clock reading now
DateNow(now) == now * Tick

IdleOAuth ==
  [ stateStore |-> [t \in Tokens |-> Undefined],   \* timestamp per state, if stored
    now |-> 0,
    issued |-> [t \in Tokens |-> 0],      \* how often getAuthUrl returned the state
    issuedAt |-> [t \in Tokens |-> 0],    \* Date.now() of the latest of these calls
    accepted |-> [t \in Tokens |-> 0],    \* how often verifyState returned true for it
    exchanged |-> 0,                      \* the calls of getAccessToken
    answer |-> "none",                    \* the answer of the latest callback
    state |-> 0 ]                         \* the state of the latest callback

\* isValid of verifyState, false when the store does not have the state
IsValid(store, state, now) ==
  /\ state \in Tokens
  /\ store[state] # Undefined
  /\ DateNow(now) - store[state] < StateTtl

\* verifyState that leaves an accepted state in the store
StoreAfterVerifyKept(store, state, now) == store

\* the store after verifyState: a state that is valid is deleted
StoreAfterVerify(store, state, now) ==
  IF IsValid(store, state, now) THEN [store EXCEPT ![state] = Undefined] ELSE store

\* time passes
ClockTick ==
  /\ oauth.now < MaxClock
  /\ oauth' = [oauth EXCEPT !.now = oauth.now + 1]
  /\ UNCHANGED <<shops, productCache, nextProductId, mysteryBoxes, boxInstances, gen,
                 upstream, sync, upserts>>

\* GET /shopify/install with a shop: getAuthUrl draws a state and stores it
\* with the time
ShopifyInstall(shop, state) ==
  /\ oauth.issued[state] < MaxIssues
  /\ oauth' = [oauth EXCEPT !.stateStore[state] = DateNow(oauth.now),
                            !.issued[state] = oauth.issued[state] + 1,
                            !.issuedAt[state] = DateNow(oauth.now)]
  /\ UNCHANGED <<shops, productCache, nextProductId, mysteryBoxes, boxInstances, gen,
                 upstream, sync, upserts>>

\* GET /shopify/callback: 400 without code or shop, 400 when verifyState
\* rejects, otherwise the code is exchanged and the shop stored; an exchange
\* that fails is answered 500
ShopifyCallback(hasCode, shop, state, ok) ==
  IF ~hasCode \/ shop = 0
  THEN /\ oauth' = [oauth EXCEPT !.answer = "MissingParameters", !.state = state]
       /\ UNCHANGED <<shops, productCache, nextProductId, mysteryBoxes, boxInstances, gen,
                      upstream, sync, upserts>>
  ELSE IF ~IsValid(oauth.stateStore, state, oauth.now)
  THEN /\ oauth' = [oauth EXCEPT
                       !.stateStore = StoreAfterVerify(oauth.stateStore, state, oauth.now),
                       !.answer = "InvalidState", !.state = state]
       /\ UNCHANGED <<shops, productCache, nextProductId, mysteryBoxes, boxInstances, gen,
                      upstream, sync, upserts>>
  ELSE /\ oauth' = [oauth EXCEPT
                       !.stateStore = StoreAfterVerify(oauth.stateStore, state, oauth.now),
                       !.accepted[state] = oauth.accepted[state] + 1,
                       !.exchanged = oauth.exchanged + 1,
                       !.answer = IF ok THEN "Installed" ELSE "Failed",
                       !.state = state]
       /\ shops' = IF ok THEN shops \cup {shop} ELSE shops
       /\ UNCHANGED <<productCache, nextProductId, mysteryBoxes, boxInstances, gen,
                      upstream, sync, upserts>>

----------------------------------------------------------------------------
(* Specification of bundle generation over priced catalogs *)

InitCommon ==
  /\ shops = Tenants
  /\ boxInstances = <<>>
  /\ gen = [c \in Callers |-> IdleGen]
  /\ upstream = <<>>
  /\ sync = IdleSync
  /\ upserts = IdleUpserts
  /\ oauth = IdleOAuth

Init ==
  /\ InitCommon
  /\ productCache \in PricedCatalogs
  /\ nextProductId = Len(productCache) + 1
  /\ mysteryBoxes \in {<<box>> : box \in StoredBoxes(ValueCreateBodies, ValueUpdateBodies)}

Next ==
  \/ GenStart(1, 1, 1)
  \/ PrimaryStep(1)
  \/ GenFinish(1)

Spec == Init /\ [][Next]_vars

----------------------------------------------------------------------------
(* Specification of bundle generation over catalogs of mixed types and tags *)

InitFilter ==
  /\ InitCommon
  /\ productCache \in FilterCatalogs
  /\ nextProductId = Len(productCache) + 1
  /\ mysteryBoxes \in {<<box>> : box \in StoredBoxes(FilterCreateBodies, FilterUpdateBodies)}

NextFilter ==
  \/ GenStart(1, 1, 1)
  \/ PrimaryStep(1)
  \/ GenFinish(1)

SpecFilter == InitFilter /\ [][NextFilter]_vars

----------------------------------------------------------------------------
(* Specification of the catalog sync runs of shop 1 *)

InitSync ==
  /\ shops = Tenants
  /\ productCache = <<>>
  /\ nextProductId = 1
  /\ mysteryBoxes = <<>>
  /\ boxInstances = <<>>
  /\ gen = [c \in Callers |-> IdleGen]
  /\ upstream \in UpstreamCatalogs
  /\ sync = IdleSync
  /\ upserts = IdleUpserts
  /\ oauth = IdleOAuth

NextSync ==
  \/ LiveSyncStart(1)
  \/ VariantSyncStart(1)
  \/ \E ok \in BOOLEAN : LiveFetchPage(ok)
  \/ \E ok \in BOOLEAN : LiveSyncItem(ok)
  \/ \E stored \in 0..MaxVariants : VariantSyncItem(stored)
  \/ LiveSyncDone
  \/ RestSyncStart(1)
  \/ \E ok \in BOOLEAN : RestFetchPage(ok)
  \/ \E ok \in BOOLEAN : RestCacheItem(ok)
  \/ RestSyncDone

SpecSync == InitSync /\ [][NextSync]_vars

\* The sync runs against long catalogs. A fetch may fail; the writes of the
\* item loops succeed, apart from the per-variant upserts, whose failures
\* the loop counts. A run that has started is carried on: each step is an
\* await of the one async function, so the next-state relation is weakly fair
InitPaging ==
  /\ shops = Tenants
  /\ productCache = <<>>
  /\ nextProductId = 1
  /\ mysteryBoxes = <<>>
  /\ boxInstances = <<>>
  /\ gen = [c \in Callers |-> IdleGen]
  /\ upstream \in LongCatalogs
  /\ sync = IdleSync
  /\ upserts = IdleUpserts
  /\ oauth = IdleOAuth

NextPaging ==
  \/ LiveSyncStart(1)
  \/ VariantSyncStart(1)
  \/ \E ok \in BOOLEAN : LiveFetchPage(ok)
  \/ LiveSyncItem(TRUE)
  \/ \E stored \in 0..MaxVariants : VariantSyncItem(stored)
  \/ LiveSyncDone
  \/ RestSyncStart(1)
  \/ \E ok \in BOOLEAN : RestFetchPage(ok)
  \/ RestCacheItem(TRUE)
  \/ RestSyncDone

SpecPaging == InitPaging /\ [][NextPaging]_vars /\ WF_vars(NextPaging)

----------------------------------------------------------------------------
(* Specification of the write paths of the catalog of shop 1: the product  *)
(* webhooks, the single-product refresh and the sync runs                  *)

InitWrites ==
  /\ shops = Tenants
  /\ productCache = <<>>
  /\ nextProductId = 1
  /\ mysteryBoxes = <<>>
  /\ boxInstances = <<>>
  /\ gen = [c \in Callers |-> IdleGen]
  /\ upstream \in WriteCatalogs
  /\ sync = IdleSync
  /\ upserts = IdleUpserts
  /\ oauth = IdleOAuth

NextWrites ==
  \/ \E id \in 1..MaxWriteIds : \E product \in WriteProducts(id) : ProductWebhook(1, product)
  \/ \E id \in 1..MaxWriteIds : ProductDeleteWebhook(1, id)
  \/ \E ok \in BOOLEAN : RefreshProduct(1, ok, upstream[1][1])
  \/ nextProductId <= MaxRowId /\ LiveSyncStart(1)
  \/ nextProductId <= MaxRowId /\ VariantSyncStart(1)
  \/ LiveFetchPage(TRUE)
  \/ LiveSyncItem(TRUE)
  \/ \E stored \in 0..MaxVariants : VariantSyncItem(stored)
  \/ LiveSyncDone
  \/ nextProductId <= MaxRowId /\ RestSyncStart(1)
  \/ RestFetchPage(TRUE)
  \/ RestCacheItem(TRUE)
  \/ RestSyncDone

SpecWrites == InitWrites /\ [][NextWrites]_vars

\* The sync runs against catalogs that carry one product twice
InitRepeat ==
  /\ shops = Tenants
  /\ productCache = <<>>
  /\ nextProductId = 1
  /\ mysteryBoxes = <<>>
  /\ boxInstances = <<>>
  /\ gen = [c \in Callers |-> IdleGen]
  /\ upstream \in RepeatCatalogs
  /\ sync = IdleSync
  /\ upserts = IdleUpserts
  /\ oauth = IdleOAuth

SpecRepeat == InitRepeat /\ [][NextSync]_vars

\* Bundle generation over catalogs of up to MaxSelectRows items and valid
\* templates
InitSelect ==
  /\ InitCommon
  /\ productCache \in SelectCatalogs
  /\ nextProductId = Len(productCache) + 1
  /\ mysteryBoxes \in {<<box>> : box \in SelectBoxes}

SpecSelect == InitSelect /\ [][Next]_vars

\* Bundle generation with targets of about MaxTargetValue, where a tenth of
\* the target is the price of an item
InitTarget ==
  /\ InitCommon
  /\ productCache \in TargetCatalogs
  /\ nextProductId = Len(productCache) + 1
  /\ mysteryBoxes \in {<<box>> : box \in TargetBoxes}

SpecTarget == InitTarget /\ [][Next]_vars

\* Two generate requests in flight at once, by either shop, on template 1 of
\* shop 1
InitConcurrent ==
  /\ InitCommon
  /\ productCache \in TargetCatalogs \cup {<<>>}
  /\ nextProductId = Len(productCache) + 1
  /\ mysteryBoxes \in {<<box>> : box \in {b \in TargetBoxes : b.minValue = 0}}

NextConcurrent ==
  \/ \E c \in Callers : \E shop \in Tenants : GenStart(c, shop, 1)
  \/ \E c \in Callers : PrimaryStep(c)
  \/ \E c \in Callers : GenFinish(c)

SpecConcurrent == InitConcurrent /\ [][NextConcurrent]_vars

\* Two writers, each one cacheProduct call, under either unique index
InitUpsert ==
  /\ shops = Tenants
  /\ productCache \in UpsertCatalogs
  /\ nextProductId = Len(productCache) + 1
  /\ mysteryBoxes = <<>>
  /\ boxInstances = <<>>
  /\ gen = [c \in Callers |-> IdleGen]
  /\ upstream = <<>>
  /\ sync = IdleSync
  /\ upserts \in {[IdleUpserts EXCEPT !.uniqueKey = key] : key \in UniqueKeys}
  /\ oauth = IdleOAuth

NextUpsert ==
  \/ \E w \in Writers : \E shop \in Tenants : \E id \in 1..MaxWriteIds :
       \E product \in UpsertProducts(id) : UpsertFind(w, shop, product)
  \/ \E w \in Writers : UpsertWrite(w)

SpecUpsert == InitUpsert /\ [][NextUpsert]_vars

\* Installations: no shop is stored yet; the callbacks carry any state, also
\* one that was never issued, or none (0)
InitOAuth ==
  /\ shops = {}
  /\ productCache = <<>>
  /\ nextProductId = 1
  /\ mysteryBoxes = <<>>
  /\ boxInstances = <<>>
  /\ gen = [c \in Callers |-> IdleGen]
  /\ upstream = <<>>
  /\ sync = IdleSync
  /\ upserts = IdleUpserts
  /\ oauth = IdleOAuth

NextOAuth ==
  \/ ClockTick
  \/ \E state \in Tokens : ShopifyInstall(1, state)
  \/ \E state \in {0} \cup Tokens : \E ok \in BOOLEAN : ShopifyCallback(TRUE, 1, state, ok)
  \/ \E state \in {0} \cup Tokens : ShopifyCallback(FALSE, 1, state, TRUE)
  \/ \E state \in {0} \cup Tokens : ShopifyCallback(TRUE, 0, state, TRUE)

SpecOAuth == InitOAuth /\ [][NextOAuth]_vars

\* Statistics requests over stored box instances: template 1 is shop 1's,
\* template 2 is shop 2's
InitStats ==
  /\ shops = Tenants
  /\ gen = [c \in Callers |-> IdleGen]
  /\ upstream = <<>>
  /\ sync = IdleSync
  /\ upserts = IdleUpserts
  /\ oauth = IdleOAuth
  /\ productCache = <<>>
  /\ nextProductId = 1
  /\ mysteryBoxes = << MysteryBoxData(1, 1, [EmptyBody EXCEPT !.minValue = 0, !.maxValue = MaxValue]),
                       MysteryBoxData(2, 2, [EmptyBody EXCEPT !.minValue = 0, !.maxValue = MaxValue]) >>
  /\ boxInstances \in StatsTables

NextStats ==
  \E shop \in Tenants : \E id \in 1..2 : GetStatistics(1, shop, id)

SpecStats == InitStats /\ [][NextStats]_vars

\* The template routes: create and update requests of shop 1, over the
\* bodies of the value grid and of the filters
InitTemplates ==
  /\ InitCommon
  /\ productCache = <<>>
  /\ nextProductId = 1
  /\ mysteryBoxes = <<>>

NextTemplates ==
  \/ \E body \in ValueCreateBodies \cup FilterCreateBodies : CreateBox(1, body)
  \/ \E id \in 1..MaxBoxes :
       \E body \in ValueUpdateBodies \cup FilterUpdateBodies : UpdateBox(1, id, body)

SpecTemplates == InitTemplates /\ [][NextTemplates]_vars

\* The product webhooks of both shops, and a generate request of shop 1 for
\* a template without filters
DeleteBoxes ==
  { MysteryBoxData(1, 1, [EmptyBody EXCEPT !.minValue = a, !.maxValue = MaxValue,
                                           !.minItems = 1, !.maxItems = MaxItemsArg]) :
      a \in 0..1 }

\* the payload of product id that the product webhooks of this
\* specification carry: one variant, in stock
DeleteProducts(id) ==
  { RawProduct(id, "Apparel", TagsSa, "active", <<Variant(1, 0, 1)>>) }

InitDelete ==
  /\ InitCommon
  /\ productCache = <<>>
  /\ nextProductId = 1
  /\ mysteryBoxes \in {<<box>> : box \in DeleteBoxes}

NextDelete ==
  \/ \E shop \in Tenants : \E id \in 1..MaxWriteIds :
       \E product \in DeleteProducts(id) : ProductWebhook(shop, product)
  \/ \E shop \in Tenants : \E id \in 1..MaxWriteIds : ProductDeleteWebhook(shop, id)
  \/ GenStart(1, 1, 1)
  \/ PrimaryStep(1)
  \/ GenFinish(1)

SpecDelete == InitDelete /\ [][NextDelete]_vars

\* Two shops whose Shopify catalogs both hold product 1: webhooks and bulk
\* one bulk sync of either shop, or generate requests by shop c as caller c
\* on template 1, which is shop 1's
NothingStarted == sync.pc = "idle" /\ \A c \in Callers : gen[c].pc = "idle"

InitTenants ==
  /\ shops = Tenants
  /\ productCache = <<>>
  /\ nextProductId = 1
  /\ mysteryBoxes \in {<<box>> : box \in DeleteBoxes}
  /\ boxInstances = <<>>
  /\ gen = [c \in Callers |-> IdleGen]
  /\ upstream \in {<< <<product>> >> : product \in DeleteProducts(1)}
  /\ sync = IdleSync
  /\ upserts = IdleUpserts
  /\ oauth = IdleOAuth

NextTenants ==
  \/ \E shop \in Tenants : \E product \in DeleteProducts(1) : ProductWebhook(shop, product)
  \/ \E shop \in Tenants : ProductDeleteWebhook(shop, 1)
  \/ \E shop \in Tenants : NothingStarted /\ nextProductId <= MaxRowId /\ LiveSyncStart(shop)
  \/ \E shop \in Tenants : NothingStarted /\ nextProductId <= MaxRowId /\ VariantSyncStart(shop)
  \/ LiveFetchPage(TRUE)
  \/ LiveSyncItem(TRUE)
  \/ \E stored \in 0..MaxVariants : VariantSyncItem(stored)
  \/ LiveSyncDone
  \/ \E shop \in Tenants : NothingStarted /\ nextProductId <= MaxRowId /\ RestSyncStart(shop)
  \/ RestFetchPage(TRUE)
  \/ RestCacheItem(TRUE)
  \/ RestSyncDone
  \/ \E c \in Callers : sync.pc = "idle" /\ GenStart(c, c, 1)
  \/ \E c \in Callers : PrimaryStep(c)
  \/ \E c \in Callers : GenFinish(c)

SpecTenants == InitTenants /\ [][NextTenants]_vars

----------------------------------------------------------------------------
(* Properties of the returned bundle *)

\* caller c has been answered with a bundle
Returned(c) == gen[c].pc = "done" /\ gen[c].outcome = "ok"

\* the instance that the call of caller c stored
Persisted(c) == boxInstances[gen[c].response.id]

\* the template invariant of the data model
ValidTemplate(cfg) ==
  /\ cfg.minValue <= cfg.maxValue
  /\ 1 <= cfg.minItems
  /\ cfg.minItems <= cfg.maxItems

\* the main loop of the call of caller c missed a minimum, so the bundle
\* is the one of selectProductsFallback
UsedFallback(c) ==
  \/ Len(gen[c].selected) < gen[c].cfg.minItems
  \/ gen[c].currentValue < gen[c].cfg.minValue

\* C1: every returned bundle, and the instance stored for it, has
\* totalValue >= minValue and itemCount >= minItems of its template (stated
\* for the templates that meet the template invariant)
C1_MinimumsMet ==
  \A c \in Callers :
    Returned(c) /\ ValidTemplate(gen[c].cfg) =>
      /\ gen[c].response.totalValue >= gen[c].cfg.minValue
      /\ gen[c].response.itemCount >= gen[c].cfg.minItems
      /\ Persisted(c).totalValue >= gen[c].cfg.minValue
      /\ Persisted(c).itemCount >= gen[c].cfg.minItems

\* C2: a call whose fallback selection still misses minItems or minValue
\* fails and stores no instance
C2_UnsatisfiableFails ==
  \A c \in Callers :
    /\ gen[c].pc = "done"
    /\ gen[c].products # <<>>
    /\ ValidTemplate(gen[c].cfg)
    /\ UsedFallback(c)
    /\ LET fallback == selectProductsFallback(gen[c].products, gen[c].cfg)
       IN \/ Len(fallback) < gen[c].cfg.minItems
          \/ TotalValue(fallback) < gen[c].cfg.minValue
    => gen[c].outcome = "ConstraintUnsatisfiable" /\ boxInstances = <<>>

\* C3: every returned bundle has itemCount <= maxItems of its template
C3_MaxItemsKept ==
  \A c \in Callers :
    Returned(c) =>
      /\ gen[c].response.itemCount <= gen[c].cfg.maxItems
      /\ Persisted(c).itemCount <= gen[c].cfg.maxItems

\* C4: every returned bundle has totalValue <= maxValue of its template
C4_MaxValueKept ==
  \A c \in Callers :
    Returned(c) =>
      /\ gen[c].response.totalValue <= gen[c].cfg.maxValue
      /\ Persisted(c).totalValue <= gen[c].cfg.maxValue

\* the same two statements for the templates that meet the template invariant
MaxItemsKeptIfValid ==
  \A c \in Callers :
    Returned(c) /\ ValidTemplate(gen[c].cfg) =>
      gen[c].response.itemCount <= gen[c].cfg.maxItems

MaxValueKeptIfValid ==
  \A c \in Callers :
    Returned(c) /\ ValidTemplate(gen[c].cfg) =>
      gen[c].response.totalValue <= gen[c].cfg.maxValue

\* the items of rows (positions in products) meet the four bounds of cfg
MeetsBounds(products, rows, cfg) ==
  LET prices == [i \in 1..Len(products) |-> products[i].price]
      total == SumOver(rows, prices)
  IN /\ cfg.minItems <= Cardinality(rows)
     /\ Cardinality(rows) <= cfg.maxItems
     /\ cfg.minValue <= total
     /\ total <= cfg.maxValue

\* some subset of the eligible items meets the four bounds
Satisfiable(products, cfg) ==
  \E rows \in SUBSET (1..Len(products)) : MeetsBounds(products, rows, cfg)

\* the returned bundle of caller c meets the four bounds
BundleInBounds(c) ==
  /\ gen[c].cfg.minItems <= gen[c].response.itemCount
  /\ gen[c].response.itemCount <= gen[c].cfg.maxItems
  /\ gen[c].cfg.minValue <= gen[c].response.totalValue
  /\ gen[c].response.totalValue <= gen[c].cfg.maxValue

FallbackMisses(c) ==
  LET fallback == selectProductsFallback(gen[c].products, gen[c].cfg)
  IN \/ Len(fallback) < gen[c].cfg.minItems
     \/ TotalValue(fallback) < gen[c].cfg.minValue

AddsItem(c) == Len(gen'[c].selected) > Len(gen[c].selected)

\* the running total of g is at least nine tenths of its targetValue
NearTarget(g) == g.currentValue * RandSteps * 10 >= g.targetValue * 9

\* an unchosen item of g fits its remaining budget
SomeItemFits(g) ==
  AvailableProducts(SortAsc(g.products), g.selected, g.targetValue, g.currentValue) # <<>>

\* the main loop makes at most one attempt per item it added, and one more;
\* it never passes maxAttempts or targetItems
LoopBounded(g) ==
  /\ g.attempts <= MaxAttempts
  /\ g.attempts <= Len(g.selected) + 1
  /\ Len(g.selected) <= Len(g.products)
  /\ g.pc # "idle" => Len(g.selected) <= g.targetItems

\* C25: the main loop adds no item once the count equals targetItems, and
\* none once the running total is at least 90% of targetValue with the
\* count at least minItems; it ends when no unchosen item fits the budget,
\* and within 1000 attempts
C25_PrimaryStops ==
  /\ [][\A c \in Callers :
          AddsItem(c) =>
            /\ Len(gen[c].selected) < gen[c].targetItems
            /\ ~(NearTarget(gen[c]) /\ Len(gen[c].selected) >= gen[c].cfg.minItems)]_vars
  /\ [][\A c \in Callers :
          gen[c].pc = "loop" /\ ~SomeItemFits(gen[c]) => gen'[c].pc # "loop"]_vars
  /\ [](\A c \in Callers : LoopBounded(gen[c]))

\* C25 as amended: the stop at 90% of targetValue also needs the running
\* total to be at least minValue
C25_PrimaryStopsAtMinimums ==
  /\ [][\A c \in Callers :
          AddsItem(c) =>
            /\ Len(gen[c].selected) < gen[c].targetItems
            /\ ~(/\ NearTarget(gen[c])
                 /\ Len(gen[c].selected) >= gen[c].cfg.minItems
                 /\ gen[c].currentValue >= gen[c].cfg.minValue)]_vars
  /\ [][\A c \in Callers :
          gen[c].pc = "loop" /\ ~SomeItemFits(gen[c]) => gen'[c].pc # "loop"]_vars
  /\ [](\A c \in Callers : LoopBounded(gen[c]))

\* the main loop has stopped at 90% of targetValue, with both minimums met,
\* below targetItems and with an item that still fits the budget
C25_Witness ==
  /\ gen[1].pc = "break"
  /\ gen[1].selected # <<>>
  /\ Len(gen[1].selected) < gen[1].targetItems
  /\ NearTarget(gen[1])
  /\ gen[1].currentValue >= gen[1].cfg.minValue
  /\ SomeItemFits(gen[1])

\* no two positions of the sequence hold the same catalog row
NoRowTwice(rows) ==
  \A i, j \in 1..Len(rows) : i # j => rows[i].id # rows[j].id

C26_FallbackWitness ==
  /\ Returned(1)
  /\ UsedFallback(1)
  /\ Len(gen[1].bundle) >= 2

\* the call of caller c ends in this step
Ends(c) == gen[c].pc # "done" /\ gen'[c].pc = "done"

\* this step adds exactly one box instance, of the template of caller c
AddsOneInstance(c) ==
  /\ Len(boxInstances') = Len(boxInstances) + 1
  /\ SubSeq(boxInstances', 1, Len(boxInstances)) = boxInstances
  /\ boxInstances'[Len(boxInstances')].mysteryBoxId = gen[c].cfg.id
  /\ boxInstances'[Len(boxInstances')].products = gen'[c].response.products

\* C27: a generate call, successful or failed, leaves every catalog row
\* unchanged under any interleaving with another generate call; a
\* successful call adds exactly one box instance and a failed call none
C27_GenerateFrame ==
  /\ [][\A c \in Callers :
          gen'[c] # gen[c] =>
            /\ productCache' = productCache
            /\ IF Ends(c) /\ gen'[c].outcome = "ok"
               THEN AddsOneInstance(c)
               ELSE boxInstances' = boxInstances]_vars
  /\ [](Len(boxInstances) = Cardinality({c \in Callers : Returned(c)}))

\* two calls on the same template have both returned, their bundles share
\* an item still in the catalog, and each stored its own instance
C27_Witness ==
  /\ Returned(1)
  /\ Returned(2)
  /\ gen[1].response.id # gen[2].response.id
  /\ Len(boxInstances) = 2
  /\ \E i \in 1..Len(gen[1].bundle) : \E j \in 1..Len(gen[2].bundle) :
       /\ gen[1].bundle[i] = gen[2].bundle[j]
       /\ gen[1].bundle[i] \in Range(productCache)

\* one call has failed and the other returned: one instance is stored
C27_FailureWitness ==
  /\ Returned(1)
  /\ gen[2].pc = "done"
  /\ gen[2].outcome # "ok"
  /\ Len(boxInstances) = 1

\* both writers are done with an upsert of the same key, and each made its
\* findFirst before any write
InterleavedSameKey ==
  /\ \A w \in Writers : upserts.writers[w].pc = "done" /\ upserts.writers[w].findAfter = 0
  /\ upserts.writers[1].shopId = upserts.writers[2].shopId
  /\ upserts.writers[1].product.id = upserts.writers[2].product.id

\* the catalog holds exactly one row for the key of writer 1, with the
\* field values of the payload of one of the writers
OneRowOfAPayload ==
  LET u == upserts.writers[1]
      rows == {i \in 1..Len(productCache) :
                 /\ productCache[i].shopId = u.shopId
                 /\ productCache[i].shopifyProductId = u.product.id}
  IN /\ Cardinality(rows) = 1
     /\ \A i \in rows : \E w \in Writers :
          productCache[i] =
            UpdatedRow(productCache[i],
                       ProductData(upserts.writers[w].shopId, upserts.writers[w].product))

\* C28: two interleaved upserts of the same (shop, product id), each with
\* its find before the other's write, end with exactly one row for the
\* key, holding the values of one of the two payloads
C28_InterleavedUpsertsOneRow == InterleavedSameKey => OneRowOfAPayload

\* the same under the unique index on (shopId, shopifyProductId)
InterleavedUpsertsOneRowIfProductKey ==
  upserts.uniqueKey = "shopId_shopifyProductId" /\ InterleavedSameKey => OneRowOfAPayload

\* two upserts of the same key, one wholly after the other, end with one row
\* under either index
SequentialUpsertsOneRow ==
  /\ \A w \in Writers : upserts.writers[w].pc = "done"
  /\ upserts.writers[1].shopId = upserts.writers[2].shopId
  /\ upserts.writers[1].product.id = upserts.writers[2].product.id
  /\ \E w \in Writers : upserts.writers[w].findAfter = 1
  => OneRowOfAPayload

\* the rows of the shop, in primary-key order
TenantRows(cache, shop) ==
  LET OfShop(row) == row.shopId = shop
  IN SelectSeq(cache, OfShop)

\* this step leaves the rows of every other shop as they were
OthersUnchanged(shop) ==
  \A other \in Tenants \ {shop} :
    TenantRows(productCache', other) = TenantRows(productCache, other)

\* this step is a webhook upsert or a webhook delete for the shop
WebhookStep(shop) ==
  \/ \E id \in 1..MaxWriteIds : \E product \in DeleteProducts(id) : ProductWebhook(shop, product)
  \/ \E id \in 1..MaxWriteIds : ProductDeleteWebhook(shop, id)

\* C29: every item of a bundle belongs to the shop that owns the template,
\* a generate request is refused for a template of another shop, and a
\* sync, a webhook upsert or a webhook delete for one shop never creates,
\* changes or removes a row of another shop
C29_TenantIsolation ==
  /\ [](\A c \in Callers :
          /\ \A k \in 1..Len(gen[c].bundle) : gen[c].bundle[k].shopId = gen[c].cfg.shopId
          /\ \A k \in 1..Len(gen[c].selected) : gen[c].selected[k].shopId = c
          /\ gen[c].pc # "idle" /\ FindBox(mysteryBoxes, 1, c) = 0 =>
               /\ gen[c].pc = "done"
               /\ gen[c].outcome = "NotFound"
               /\ gen[c].bundle = <<>>)
  /\ [](\A i \in 1..Len(boxInstances) :
          \E c \in Callers : Returned(c) /\ gen[c].response.id = i /\ gen[c].cfg.shopId = c)
  /\ [][\A shop \in Tenants : WebhookStep(shop) => OthersUnchanged(shop)]_vars
  /\ [][sync' # sync => OthersUnchanged(sync'.shop)]_vars

\* shop 1 got a bundle while the catalog it read held a sellable row of
\* shop 2 for the same product, and shop 2 was refused
C29_Witness ==
  /\ Returned(1)
  /\ gen[1].bundle # <<>>
  /\ \E i \in 1..Len(gen[1].startCache) :
       /\ gen[1].startCache[i].shopId = 2
       /\ WhereClause(gen[1].startCache[i], 2, <<>>, <<>>)
       /\ gen[1].startCache[i].shopifyProductId = gen[1].bundle[1].shopifyProductId
  /\ gen[2].pc = "done"
  /\ gen[2].outcome = "NotFound"

\* a bulk sync of shop 2 has stored a row while shop 1 had one for the same
\* product, which is still there
C29_SyncWitness ==
  /\ sync.pc = "done"
  /\ sync.shop = 2
  /\ TenantRows(productCache, 2) # <<>>
  /\ TenantRows(sync.before, 2) = <<>>
  /\ TenantRows(sync.before, 1) # <<>>
  /\ TenantRows(productCache, 1) = TenantRows(sync.before, 1)

\* this step is a callback with code, shop and the state
CallbackWith(state) ==
  \E ok \in BOOLEAN : ShopifyCallback(TRUE, 1, state, ok)

\* the callback exchanges no code and stores no shop in this step
NothingInstalled ==
  /\ oauth'.exchanged = oauth.exchanged
  /\ oauth'.accepted = oauth.accepted
  /\ shops' = shops
  /\ oauth'.answer = "InvalidState"

\* the state was never issued, or as often accepted as issued, or its
\* latest issue is 10 minutes or more ago
NotAcceptable(state) ==
  \/ state \notin Tokens
  \/ oauth.issued[state] = 0
  \/ oauth.accepted[state] >= oauth.issued[state]
  \/ DateNow(oauth.now) - oauth.issuedAt[state] >= StateTtl

\* C30: a state issued by getAuthUrl is accepted by verifyState at most once
\* and only within 10 minutes of being issued; a state never issued, already
\* accepted or older than 10 minutes is rejected, and the callback then
\* exchanges no code and stores no shop
C30_StateAcceptedOnce ==
  /\ [](\A t \in Tokens : oauth.accepted[t] <= oauth.issued[t])
  /\ [][\A t \in Tokens :
          oauth'.accepted[t] > oauth.accepted[t] =>
            /\ oauth.issued[t] > 0
            /\ DateNow(oauth.now) - oauth.issuedAt[t] < StateTtl
            /\ oauth'.accepted[t] = oauth.accepted[t] + 1]_vars
  /\ [][\A state \in {0} \cup Tokens :
          CallbackWith(state) /\ NotAcceptable(state) => NothingInstalled]_vars
  /\ [][oauth'.exchanged > oauth.exchanged \/ shops' # shops =>
          \E t \in Tokens : oauth'.accepted[t] > oauth.accepted[t]]_vars

\* a state was accepted once, and the callback that carried it again has
\* been answered with an invalid state
C30_Witness ==
  /\ oauth.answer = "InvalidState"
  /\ oauth.state \in Tokens
  /\ oauth.issued[oauth.state] = 1
  /\ oauth.accepted[oauth.state] = 1
  /\ DateNow(oauth.now) - oauth.issuedAt[oauth.state] < StateTtl
  /\ shops # {}

\* a callback with a state issued 10 minutes ago has been refused
C30_ExpiredWitness ==
  /\ oauth.answer = "InvalidState"
  /\ oauth.state \in Tokens
  /\ oauth.issued[oauth.state] = 1
  /\ oauth.accepted[oauth.state] = 0
  /\ DateNow(oauth.now) - oauth.issuedAt[oauth.state] = StateTtl

\* C9: savings of a returned bundle is never negative and is the larger of
\* 0 and the sum of the items' compare-at prices (the price where there is
\* none) minus totalValue; totalValue is the sum of the items' prices and
\* itemCount their number
C9_Savings ==
  \A c \in Callers :
    Returned(c) =>
      LET items == gen[c].bundle
          listed == SumSeq([i \in 1..Len(items) |->
                             IF items[i].compareAtPrice > 0
                             THEN items[i].compareAtPrice ELSE items[i].price])
          paid == SumSeq([i \in 1..Len(items) |-> items[i].price])
      IN /\ gen[c].response.savings >= 0
         /\ gen[c].response.savings = (IF listed > paid THEN listed - paid ELSE 0)
         /\ gen[c].response.totalValue = paid
         /\ gen[c].response.itemCount = Len(items)

\* a bundle of several items, one marked down and one listed below its
\* price, has been returned with savings at their floor
C9_Witness ==
  /\ Returned(1)
  /\ Len(gen[1].bundle) >= 2
  /\ \E i \in 1..Len(gen[1].bundle) : gen[1].bundle[i].compareAtPrice = 0
  /\ \E i \in 1..Len(gen[1].bundle) :
       /\ gen[1].bundle[i].compareAtPrice > 0
       /\ gen[1].bundle[i].compareAtPrice < gen[1].bundle[i].price
  /\ gen[1].response.savings = 0

----------------------------------------------------------------------------
(* Properties of the filters *)

\* the four filter columns of the template hold arrays
FiltersAreArrays(cfg) ==
  /\ cfg.includeTags.json = "array"
  /\ cfg.excludeTags.json = "array"
  /\ cfg.includeProductTypes.json = "array"
  /\ cfg.excludeProductTypes.json = "array"

\* the type of p is allowed by the type sets of the template
TypeAllowed(p, cfg) ==
  /\ cfg.includeProductTypes.v # <<>> => p.productType \in Range(cfg.includeProductTypes.v)
  /\ p.productType \notin Range(cfg.excludeProductTypes.v)

\* some tag of p contains tag t, letter case ignored
TagHit(p, t) ==
  \E j \in 1..Len(p.tags.v) : Includes(ToLowerCase(p.tags.v[j]), ToLowerCase(t))

\* the tags of p are allowed by the tag sets of the template
TagsAllowed(p, cfg) ==
  /\ cfg.includeTags.json = "array" /\ cfg.includeTags.v # <<>>
       => \E i \in 1..Len(cfg.includeTags.v) : TagHit(p, cfg.includeTags.v[i])
  /\ cfg.excludeTags.json = "array" /\ cfg.excludeTags.v # <<>>
       => ~\E i \in 1..Len(cfg.excludeTags.v) : TagHit(p, cfg.excludeTags.v[i])

\* p is in stock, active and not free
Sellable(p) == p.inventoryQuantity > 0 /\ p.status = "active" /\ p.price >= 1

\* C5: when no catalog row of the shop passes the filters of the template,
\* the call fails for lack of eligible items, selects nothing and stores no
\* instance
C5_NoEligibleFails ==
  \A c \in Callers :
    /\ gen[c].pc = "done"
    /\ gen[c].cfg.id # 0
    /\ gen[c].cfg.isActive
    /\ FiltersAreArrays(gen[c].cfg)
    /\ \A i \in 1..Len(productCache) :
         ~ /\ productCache[i].shopId = gen[c].cfg.shopId
           /\ Sellable(productCache[i])
           /\ TypeAllowed(productCache[i], gen[c].cfg)
           /\ TagsAllowed(productCache[i], gen[c].cfg)
    => /\ gen[c].outcome = "NoProducts"
       /\ gen[c].bundle = <<>>
       /\ boxInstances = <<>>

\* C6: no item of a returned bundle was out of stock, inactive or priced
\* below 0.01 in the catalog that the call read
C6_OnlySellable ==
  \A c \in Callers :
    Returned(c) => \A i \in 1..Len(gen[c].bundle) : Sellable(gen[c].bundle[i])

\* a bundle has been returned from a catalog that also holds a row out of
\* stock, or a draft, or a free product
C6_Witness ==
  /\ Returned(1)
  /\ gen[1].bundle # <<>>
  /\ \E i \in 1..Len(productCache) : ~Sellable(productCache[i])

\* C7: every item of a returned bundle has a type in includeTypes when that
\* set is not empty, and a type outside excludeTypes
C7_TypesKept ==
  \A c \in Callers :
    Returned(c) => \A i \in 1..Len(gen[c].bundle) : TypeAllowed(gen[c].bundle[i], gen[c].cfg)

\* C8: every item of a returned bundle has a tag that matches an include
\* tag when includeTags is not empty, and no tag that matches an exclude tag
\* when excludeTags is not empty
C8_TagsKept ==
  \A c \in Callers :
    Returned(c) => \A i \in 1..Len(gen[c].bundle) : TagsAllowed(gen[c].bundle[i], gen[c].cfg)

\* the statement of C8 for the templates whose tag columns both hold arrays
TagsKeptIfArrays ==
  \A c \in Callers :
    /\ Returned(c)
    /\ gen[c].cfg.includeTags.json = "array"
    /\ gen[c].cfg.excludeTags.json = "array"
    => \A i \in 1..Len(gen[c].bundle) : TagsAllowed(gen[c].bundle[i], gen[c].cfg)

----------------------------------------------------------------------------
(* Properties of the sync runs *)

\* the shop of the run has a row for upstream product id
HasRow(id) ==
  \E i \in 1..Len(productCache) :
    productCache[i].shopId = sync.shop /\ productCache[i].shopifyProductId = id

\* C10: after a sync run that ended without a fetch failure, over an
\* upstream catalog of at most 50 pages, every upstream product with a
\* variant, on whichever page, has a row in the cache of the shop
C10_AllPagesStored ==
  sync.pc = "done" /\ ~sync.fetchFailed /\ Len(upstream) <= SyncMaxPages =>
    \A n \in 1..Len(upstream) : \A k \in 1..Len(upstream[n]) :
      upstream[n][k].variants # <<>> => HasRow(upstream[n][k].id)

\* the same statement for the runs of ShopifyService.syncProducts, which
\* reads the Link header of the fetch response
RestAllPagesStored ==
  sync.kind = "rest" => C10_AllPagesStored

\* C11: a write that fails for one item of a sync run is caught and
\* counted: the run does not throw, it goes on to the remaining items, and
\* its report carries an error count that is not zero
C11_ItemErrorsCounted ==
  sync.itemFailures > 0 =>
    /\ sync.pc # "failed"
    /\ sync.pc = "done" =>
         /\ sync.idx > Len(sync.allProducts)
         /\ sync.errorCount >= sync.itemFailures

\* the statement of C11 for the per-variant LiveShopifyService.syncProducts,
\* whose catch block only counts
VariantItemErrorsCounted ==
  sync.kind = "variant" => C11_ItemErrorsCounted

\* the fetched products of the run that have no variant
ZeroVariantItems ==
  {i \in 1..Len(sync.allProducts) : sync.allProducts[i].variants = <<>>}

\* C12: in the report of a finished sync run every fetched product without
\* variants counts as one error, and every other fetched product is stored
C12_ZeroVariantsCounted ==
  sync.pc = "done" /\ sync.itemFailures = 0 =>
    /\ sync.errorCount = Cardinality(ZeroVariantItems)
    /\ \A i \in 1..Len(sync.allProducts) :
         i \notin ZeroVariantItems => HasRow(sync.allProducts[i].id)

\* C14: a sync run whose fetch of the first page fails returns no report
\* and leaves the catalog as it was
C14_FirstPageFailureIsFatal ==
  sync.fetchFailed /\ sync.pageCount = 0 =>
    /\ sync.pc # "done"
    /\ productCache = sync.before

\* the statement of C14 for ShopifyService.syncProducts, which throws on a
\* response that is not ok
RestFirstPageFailureIsFatal ==
  sync.kind = "rest" => C14_FirstPageFailureIsFatal

\* the run is the second of two runs of the same sync in a row, both without
\* an error, against the same upstream catalog
SecondRun == CleanRun /\ sync.prev = sync.kind

\* C16: the second of two runs in a row leaves the catalog rows as they
\* were, creates none, and reports updated = 0
C16_SecondRunUpdatesNothing ==
  SecondRun =>
    /\ productCache = sync.before
    /\ sync.created = 0
    /\ sync.updated = 0

\* the part of C16 about the rows: none is created, none changes
SecondRunKeepsRows ==
  SecondRun => productCache = sync.before /\ sync.created = 0

\* a request for a page is pending
FetchPending ==
  sync.pc = "fetch" /\ (sync.kind = "rest" \/ sync.hasNextPage)

HasWebhookRow(shop, product) ==
  \E i \in 1..Len(productCache) :
    productCache[i] = WithId(ProductData(shop, product), productCache[i].id)

\* no row of the catalog was written by the per-variant sync
NoVariantRows ==
  \A i \in 1..Len(productCache) : productCache[i].shopifyVariantId = NoVariantId

\* C20: a bulk sync stores, for every raw item, the row that a product
\* webhook stores for it: no item is left out and the field values agree
C20_SyncRowIsWebhookRow ==
  CleanRun =>
    \A k \in 1..Len(sync.allProducts) : HasWebhookRow(sync.shop, sync.allProducts[k])

\* the statement of C20 for the items that have a variant, and for
\* ShopifyService.syncProducts, which calls cacheProduct as the webhooks do
SyncRowIsWebhookRowIfVariants ==
  CleanRun /\ sync.kind \in {"live", "rest"} /\ NoVariantRows =>
    \A k \in 1..Len(sync.allProducts) :
      sync.allProducts[k].variants # <<>> \/ sync.kind = "rest" =>
        HasWebhookRow(sync.shop, sync.allProducts[k])

\* item k of the run is the last one fetched with its product id
LastOccurrence(k) ==
  \A n \in (k + 1)..Len(sync.allProducts) :
    sync.allProducts[n].id # sync.allProducts[k].id

\* the number of rows that the catalog holds for the product of the shop
RowsOf(shop, pid) ==
  Cardinality({ i \in 1..Len(productCache) :
                  productCache[i].shopId = shop /\ productCache[i].shopifyProductId = pid })

\* the catalog holds one row for item k of the run, with the values of item k
OneRowWithValuesOf(k) ==
  /\ RowsOf(sync.shop, sync.allProducts[k].id) = 1
  /\ HasWebhookRow(sync.shop, sync.allProducts[k])

\* C22: after a run, the row of a product that the run fetched more than
\* once holds the values of the last occurrence (one that has a variant, so
\* that it is an item the run stores), and it is the only row of the product
C22_LastWriteWins ==
  CleanRun =>
    \A k \in 1..Len(sync.allProducts) :
      LastOccurrence(k) /\ sync.allProducts[k].variants # <<>> => OneRowWithValuesOf(k)

\* the statement of C22 for the runs that write one row per product
PerProductLastWriteWins ==
  sync.kind \in {"live", "rest"} /\ NoVariantRows => C22_LastWriteWins

----------------------------------------------------------------------------
(* Properties of the catalog rows *)

\* C13: the catalog never holds a row for a product that had no variant
\* when the row was written
C13_NoZeroVariantRows ==
  \A i \in 1..Len(productCache) : productCache[i].variantCount > 0

\* rows i and j of the catalog are rows of one product of one shop
SameItem(i, j) ==
  /\ productCache[i].shopId = productCache[j].shopId
  /\ productCache[i].shopifyProductId = productCache[j].shopifyProductId

\* C17: the catalog holds at most one row per (shopId, shopifyProductId)
C17_OneRowPerItem ==
  \A i, j \in 1..Len(productCache) : SameItem(i, j) => i = j

\* of two rows of one product, one was written by the per-variant sync: the
\* other write paths find the row of the product before they write
OnlyVariantRowsRepeat ==
  \A i, j \in 1..Len(productCache) :
    SameItem(i, j) /\ i # j =>
      \/ productCache[i].shopifyVariantId # NoVariantId
      \/ productCache[j].shopifyVariantId # NoVariantId

\* C18: every catalog row has a price and a stock quantity that are not
\* negative, whatever the payload carried
C18_PriceAndStockNotNegative ==
  \A i \in 1..Len(productCache) :
    /\ productCache[i].price >= 0
    /\ productCache[i].inventoryQuantity >= 0

----------------------------------------------------------------------------
(* Properties of the stored templates *)

\* C19: every stored template has minValue <= maxValue and
\* 1 <= minItems <= maxItems; the routes store nothing else
C19_StoredTemplatesValid ==
  \A i \in 1..Len(mysteryBoxes) : ValidTemplate(mysteryBoxes[i])

\* the one check of the create route: a stored template that no update has
\* touched has minValue <= maxValue
CreatedValueRangeValid ==
  [][\A i \in 1..Len(mysteryBoxes') :
       i > Len(mysteryBoxes) => mysteryBoxes'[i].minValue <= mysteryBoxes'[i].maxValue]_vars

----------------------------------------------------------------------------
(* Properties of the product-deleted webhook *)

\* a step has removed rows from the catalog
RowsRemoved == Len(productCache') < Len(productCache)

\* the step removed every row of product pid of the shop and nothing else
RemovedExactly(shop, pid) ==
  /\ \A i \in 1..Len(productCache') :
       ~(productCache'[i].shopId = shop /\ productCache'[i].shopifyProductId = pid)
  /\ \A i \in 1..Len(productCache) :
       \/ productCache[i].shopId = shop /\ productCache[i].shopifyProductId = pid
       \/ \E j \in 1..Len(productCache') : productCache'[j] = productCache[i]
  /\ \A j \in 1..Len(productCache') :
       \E i \in 1..Len(productCache) : productCache[i] = productCache'[j]

----------------------------------------------------------------------------
(* Properties of the statistics *)

\* the rows of the box instance table that belong to template id, if the
\* template is the shop's
InstancesOf(shop, id) ==
  { i \in 1..Len(boxInstances) :
      /\ boxInstances[i].mysteryBoxId = id
      /\ \E b \in 1..Len(mysteryBoxes) :
           mysteryBoxes[b].id = id /\ mysteryBoxes[b].shopId = shop }

\* range is the least and the greatest of field[i] over rows
IsRangeOf(range, rows, field) ==
  /\ \A i \in rows : range.min <= field[i] /\ field[i] <= range.max
  /\ \E i \in rows : range.min = field[i]
  /\ \E i \in rows : range.max = field[i]

\* C23: the object that getStatistics returned is the all-zero default if
\* the template has no instance; otherwise it holds the number of the
\* template's instances, the sum of their values, the averages as the sums
\* over the count, and the least and greatest value and item count. The
\* call leaves the stored data as they were
C23_Statistics ==
  /\ [](\A c \in Callers :
          gen[c].outcome = "stats" =>
            LET rows == InstancesOf(gen[c].cfg.shopId, gen[c].cfg.id)
                stats == gen[c].stats
                ValueAt == [i \in 1..Len(boxInstances) |-> boxInstances[i].totalValue]
                ItemsAt == [i \in 1..Len(boxInstances) |-> boxInstances[i].itemCount]
            IN IF rows = {} THEN stats = NoStats
               ELSE /\ stats.totalGenerated = Cardinality(rows)
                    /\ stats.totalValue = SumOver(rows, ValueAt)
                    /\ stats.averageValue = Quotient(SumOver(rows, ValueAt), Cardinality(rows))
                    /\ stats.averageItems = Quotient(SumOver(rows, ItemsAt), Cardinality(rows))
                    /\ IsRangeOf(stats.valueRange, rows, ValueAt)
                    /\ IsRangeOf(stats.itemRange, rows, ItemsAt))
  /\ [][<<shops, productCache, mysteryBoxes, boxInstances>>' =
          <<shops, productCache, mysteryBoxes, boxInstances>>]_vars

\* statistics were returned for a template that has instances of different
\* values and item counts
C23_Witness ==
  /\ gen[1].outcome = "stats"
  /\ gen[1].stats.totalGenerated >= 2
  /\ gen[1].stats.valueRange.min < gen[1].stats.valueRange.max
  /\ gen[1].stats.itemRange.min < gen[1].stats.itemRange.max

====
